---- MODULE Spec2Model ----
(***************************************************************************)
(* A model of the DES teaching core: the bit/table engine, the key         *)
(* schedule, the Feistel round and the single-block cipher (lib/des.ts),   *)
(* the diagnostic variant engine (services/diagnostics) and the            *)
(* mode-of-operation layer of the application (App).                       *)
(*                                                                         *)
(* Representation.  A bit sequence is a sequence over {0,1}, MSB first.    *)
(* A hex string is the sequence of its digits' values (0..15), so that     *)
(* hexToBits and bitsToHex convert between two different representations.  *)
(* A byte array is a sequence over 0..255.  JavaScript indexes from 0,     *)
(* TLA+ sequences from 1.                                                  *)
(*                                                                         *)
(* A value the code binds once (const x = ...) and uses several times is   *)
(* passed here as the parameter of a local operator, which the model       *)
(* checker evaluates once per call.                                        *)
(***************************************************************************)
EXTENDS Integers, Sequences, FiniteSets

(***************************************************************************)
(* Tables (des.ts 51-141), verbatim.                                       *)
(***************************************************************************)
IP_TABLE ==
    << 58, 50, 42, 34, 26, 18, 10,  2, 60, 52, 44, 36, 28, 20, 12,  4,
       62, 54, 46, 38, 30, 22, 14,  6, 64, 56, 48, 40, 32, 24, 16,  8,
       57, 49, 41, 33, 25, 17,  9,  1, 59, 51, 43, 35, 27, 19, 11,  3,
       61, 53, 45, 37, 29, 21, 13,  5, 63, 55, 47, 39, 31, 23, 15,  7 >>

FP_TABLE ==
    << 40,  8, 48, 16, 56, 24, 64, 32, 39,  7, 47, 15, 55, 23, 63, 31,
       38,  6, 46, 14, 54, 22, 62, 30, 37,  5, 45, 13, 53, 21, 61, 29,
       36,  4, 44, 12, 52, 20, 60, 28, 35,  3, 43, 11, 51, 19, 59, 27,
       34,  2, 42, 10, 50, 18, 58, 26, 33,  1, 41,  9, 49, 17, 57, 25 >>

E_TABLE ==
    << 32,  1,  2,  3,  4,  5,  4,  5,  6,  7,  8,  9,  8,  9, 10, 11,
       12, 13, 12, 13, 14, 15, 16, 17, 16, 17, 18, 19, 20, 21, 20, 21,
       22, 23, 24, 25, 24, 25, 26, 27, 28, 29, 28, 29, 30, 31, 32,  1 >>

P_TABLE ==
    << 16,  7, 20, 21, 29, 12, 28, 17,  1, 15, 23, 26,  5, 18, 31, 10,
        2,  8, 24, 14, 32, 27,  3,  9, 19, 13, 30,  6, 22, 11,  4, 25 >>

PC1_TABLE ==
    << 57, 49, 41, 33, 25, 17,  9,  1, 58, 50, 42, 34, 26, 18, 10,  2,
       59, 51, 43, 35, 27, 19, 11,  3, 60, 52, 44, 36, 63, 55, 47, 39,
       31, 23, 15,  7, 62, 54, 46, 38, 30, 22, 14,  6, 61, 53, 45, 37,
       29, 21, 13,  5, 28, 20, 12,  4 >>

PC2_TABLE ==
    << 14, 17, 11, 24,  1,  5,  3, 28, 15,  6, 21, 10, 23, 19, 12,  4,
       26,  8, 16,  7, 27, 20, 13,  2, 41, 52, 31, 37, 47, 55, 30, 40,
       51, 45, 33, 48, 44, 49, 39, 56, 34, 53, 46, 42, 50, 36, 29, 32 >>

SHIFT_SCHEDULE ==
    <<  1,  1,  2,  2,  2,  2,  2,  2,  1,  2,  2,  2,  2,  2,  2,  1 >>

S_BOXES ==
    << << <<14, 4, 13, 1, 2, 15, 11, 8, 3, 10, 6, 12, 5, 9, 0, 7>>,
          <<0, 15, 7, 4, 14, 2, 13, 1, 10, 6, 12, 11, 9, 5, 3, 8>>,
          <<4, 1, 14, 8, 13, 6, 2, 11, 15, 12, 9, 7, 3, 10, 5, 0>>,
          <<15, 12, 8, 2, 4, 9, 1, 7, 5, 11, 3, 14, 10, 0, 6, 13>> >>,
       << <<15, 1, 8, 14, 6, 11, 3, 4, 9, 7, 2, 13, 12, 0, 5, 10>>,
          <<3, 13, 4, 7, 15, 2, 8, 14, 12, 0, 1, 10, 6, 9, 11, 5>>,
          <<0, 14, 7, 11, 10, 4, 13, 1, 5, 8, 12, 6, 9, 3, 2, 15>>,
          <<13, 8, 10, 1, 3, 15, 4, 2, 11, 6, 7, 12, 0, 5, 14, 9>> >>,
       << <<10, 0, 9, 14, 6, 3, 15, 5, 1, 13, 12, 7, 11, 4, 2, 8>>,
          <<13, 7, 0, 9, 3, 4, 6, 10, 2, 8, 5, 14, 12, 11, 15, 1>>,
          <<13, 6, 4, 9, 8, 15, 3, 0, 11, 1, 2, 12, 5, 10, 14, 7>>,
          <<1, 10, 13, 0, 6, 9, 8, 7, 4, 15, 14, 3, 11, 5, 2, 12>> >>,
       << <<7, 13, 14, 3, 0, 6, 9, 10, 1, 2, 8, 5, 11, 12, 4, 15>>,
          <<13, 8, 11, 5, 6, 15, 0, 3, 4, 7, 2, 12, 1, 10, 14, 9>>,
          <<10, 6, 9, 0, 12, 11, 7, 13, 15, 1, 3, 14, 5, 2, 8, 4>>,
          <<3, 15, 0, 6, 10, 1, 13, 8, 9, 4, 5, 11, 12, 7, 2, 14>> >>,
       << <<2, 12, 4, 1, 7, 10, 11, 6, 8, 5, 3, 15, 13, 0, 14, 9>>,
          <<14, 11, 2, 12, 4, 7, 13, 1, 5, 0, 15, 10, 3, 9, 8, 6>>,
          <<4, 2, 1, 11, 10, 13, 7, 8, 15, 9, 12, 5, 6, 3, 0, 14>>,
          <<11, 8, 12, 7, 1, 14, 2, 13, 6, 15, 0, 9, 10, 4, 5, 3>> >>,
       << <<12, 1, 10, 15, 9, 2, 6, 8, 0, 13, 3, 4, 14, 7, 5, 11>>,
          <<10, 15, 4, 2, 7, 12, 9, 5, 6, 1, 13, 14, 0, 11, 3, 8>>,
          <<9, 14, 15, 5, 2, 8, 12, 3, 7, 0, 4, 10, 1, 13, 11, 6>>,
          <<4, 3, 2, 12, 9, 5, 15, 10, 11, 14, 1, 7, 6, 0, 8, 13>> >>,
       << <<4, 11, 2, 14, 15, 0, 8, 13, 3, 12, 9, 7, 5, 10, 6, 1>>,
          <<13, 0, 11, 7, 4, 9, 1, 10, 14, 3, 5, 12, 2, 15, 8, 6>>,
          <<1, 4, 11, 13, 12, 3, 7, 14, 10, 15, 6, 8, 0, 5, 9, 2>>,
          <<6, 11, 13, 8, 1, 4, 10, 7, 9, 5, 0, 15, 14, 2, 3, 12>> >>,
       << <<13, 2, 8, 4, 6, 15, 11, 1, 10, 9, 3, 14, 5, 0, 12, 7>>,
          <<1, 15, 13, 8, 10, 3, 7, 4, 12, 5, 6, 11, 0, 14, 9, 2>>,
          <<7, 11, 4, 1, 9, 12, 14, 2, 0, 6, 10, 13, 15, 3, 5, 8>>,
          <<2, 1, 14, 7, 4, 10, 8, 13, 15, 12, 9, 0, 3, 5, 6, 11>> >> >>

(***************************************************************************)
(* JavaScript array and string primitives used by the code.                *)
(***************************************************************************)
Min(a, b) == IF a < b THEN a ELSE b

Max(a, b) == IF a > b THEN a ELSE b

\* Array.prototype.slice(start, end) for 0 <= start: elements start..end-1.
slice(s, start, end) == SubSeq(s, start + 1, Min(end, Len(s)))

\* String.prototype.padStart(n, '0') on a hex string.
padStart(hex, n) == [i \in 1..Max(n - Len(hex), 0) |-> 0] \o hex

\* String.prototype.padEnd(n, '0') on a hex string.
padEnd(hex, n) == hex \o [i \in 1..Max(n - Len(hex), 0) |-> 0]

\* [...s].reverse()
reverse(s) == SubSeq([i \in 1..Len(s) |-> s[Len(s) + 1 - i]], 1, Len(s))

(***************************************************************************)
(* Bit/Table engine (des.ts 157-193).                                      *)
(***************************************************************************)
permute(bits, table) ==
    SubSeq([i \in 1..Len(table) |-> bits[table[i]]], 1, Len(table))

\* Variant of leftShift that leaves the bits where they are.
leftShiftNone(bits, shift) == bits

leftShift(bits, shift) ==
    LET rotate(normalized) ==
            slice(bits, normalized, Len(bits)) \o slice(bits, 0, normalized)
    IN  rotate(shift % Len(bits))

\* (bit ^ b[idx]) & 1
\* Variant of xorBits that combines the bits with OR.
orBits(a, b) ==
    SubSeq([idx \in 1..Len(a) |-> Max(a[idx], b[idx])], 1, Len(a))

xorBits(a, b) ==
    SubSeq([idx \in 1..Len(a) |-> (a[idx] + b[idx]) % 2], 1, Len(a))

chunkBits(bits, size) ==
    [k \in 1..((Len(bits) + size - 1) \div size) |->
        slice(bits, (k - 1) * size, k * size)]

\* bits.reduce((acc, bit) => (acc << 1) | bit, 0), over the first n bits.
RECURSIVE reduceBits(_, _)
reduceBits(bits, n) ==
    IF n = 0 THEN 0 ELSE 2 * reduceBits(bits, n - 1) + bits[n]

\* hexLookup[value]: the digit whose value is value.
toHexDigit(bits) == reduceBits(bits, Len(bits))

\* chunkBits(bits, 4).map(toHexDigit).join('')
bitsToHex(bits) ==
    LET digits(chunks, count) ==
            SubSeq([k \in 1..count |-> toHexDigit(chunks[k])], 1, count)
    IN  digits(chunkBits(bits, 4), (Len(bits) + 3) \div 4)

\* (value >> 3) & 1, (value >> 2) & 1, (value >> 1) & 1, value & 1
\* Variant of nibbleBits that pushes the least significant bit first.
nibbleBitsLsbFirst(value) ==
    << value % 2, (value \div 2) % 2, (value \div 4) % 2, (value \div 8) % 2 >>

nibbleBits(value) ==
    << (value \div 8) % 2, (value \div 4) % 2, (value \div 2) % 2, value % 2 >>

\* The loops that push the four bits of each value in turn (des.ts 188-191
\* over the digits of a hex string, 223-228 over the S-box values).
RECURSIVE pushNibbles(_, _, _)
pushNibbles(values, index, bits) ==
    IF index > Len(values) THEN bits
    ELSE pushNibbles(values, index + 1, bits \o nibbleBits(values[index]))

hexToBits(hex, size) ==
    LET lastBits(bits) == slice(bits, Len(bits) - size, Len(bits))
    IN  lastBits(pushNibbles(padStart(hex, size \div 4), 1, << >>))

(***************************************************************************)
(* Round function (des.ts 212-256).                                        *)
(***************************************************************************)
\* Variant of initial_permutation that reads the FP table.
initial_permutationFp(block) == permute(block, FP_TABLE)

initial_permutation(block) == permute(block, IP_TABLE)

\* Variant of final_permutation that applies the IP table once more.
final_permutation_ip(block) == permute(block, IP_TABLE)

final_permutation(block) == permute(block, FP_TABLE)

expansion_permutation(bits) == permute(bits, E_TABLE)

p_box_permutation(bits) == permute(bits, P_TABLE)

\* des.ts 224-226: S_BOXES[index][row][column] for one 6-bit chunk.
sBoxValue(chunk, index) ==
    LET lookup(row, column) == S_BOXES[index][row + 1][column + 1]
    IN  lookup(2 * chunk[1] + chunk[6],
               8 * chunk[2] + 4 * chunk[3] + 2 * chunk[4] + chunk[5])

s_box_substitution(bits) ==
    LET sValues(chunks, count) ==
            SubSeq([index \in 1..count |-> sBoxValue(chunks[index], index)],
                   1, count)
    IN  pushNibbles(sValues(chunkBits(bits, 6), (Len(bits) + 5) \div 6),
                    1, << >>)

f_function(right, subKey) ==
    LET withSBox(expanded, xorResult, sBoxResult) ==
            [expanded   |-> expanded,
             xorResult  |-> xorResult,
             sBoxResult |-> sBoxResult,
             pBoxResult |-> p_box_permutation(sBoxResult)]
        withXor(expanded, xorResult) ==
            withSBox(expanded, xorResult, s_box_substitution(xorResult))
        withExpanded(expanded) ==
            withXor(expanded, xorBits(expanded, subKey))
    IN  withExpanded(expansion_permutation(right))

\* Variant of feistel_round that does not move the right half to the left.
feistel_roundNoSwap(left, right, subKey) ==
    LET outcome(f) ==
            [left       |-> left,
             right      |-> xorBits(left, f.pBoxResult),
             expanded   |-> f.expanded,
             xorResult  |-> f.xorResult,
             sBoxResult |-> f.sBoxResult,
             pBoxResult |-> f.pBoxResult]
    IN  outcome(f_function(right, subKey))

feistel_round(left, right, subKey) ==
    LET withF(f) ==
            [left       |-> right,
             right      |-> xorBits(left, f.pBoxResult),
             expanded   |-> f.expanded,
             xorResult  |-> f.xorResult,
             sBoxResult |-> f.sBoxResult,
             pBoxResult |-> f.pBoxResult]
    IN  withF(f_function(right, subKey))

(***************************************************************************)
(* Key schedule (des.ts 258-287).                                          *)
(***************************************************************************)
\* The forEach over the shift schedule (des.ts 266-280): c and d are
\* carried from one iteration to the next, and one KeyScheduleRound is
\* pushed per entry.
\* Variant of scheduleRounds that numbers the records from 0.
RECURSIVE scheduleRoundsFromZero(_, _, _, _)
scheduleRoundsFromZero(c, d, shifts, index) ==
    IF index > Len(shifts) THEN << >>
    ELSE LET iteration(shift, c2, d2) ==
                 << [round  |-> index - 1,
                     shifts |-> shift,
                     c      |-> bitsToHex(c2),
                     d      |-> bitsToHex(d2),
                     subKey |-> bitsToHex(permute(c2 \o d2, PC2_TABLE))] >>
                 \o scheduleRoundsFromZero(c2, d2, shifts, index + 1)
         IN  iteration(shifts[index], leftShift(c, shifts[index]),
                       leftShift(d, shifts[index]))

RECURSIVE scheduleRounds(_, _, _, _)
scheduleRounds(c, d, shifts, index) ==
    IF index > Len(shifts) THEN << >>
    ELSE LET iteration(shift, c2, d2) ==
                 << [round  |-> index,
                     shifts |-> shift,
                     c      |-> bitsToHex(c2),
                     d      |-> bitsToHex(d2),
                     subKey |-> bitsToHex(permute(c2 \o d2, PC2_TABLE))] >>
                 \o scheduleRounds(c2, d2, shifts, index + 1)
         IN  iteration(shifts[index], leftShift(c, shifts[index]),
                       leftShift(d, shifts[index]))

generate_subkeys(keyHex) ==
    LET info(parityDropped, rounds) ==
            [parityDroppedKey |-> bitsToHex(parityDropped),
             rounds           |-> rounds,
             subKeys          |-> SubSeq([i \in 1..Len(rounds) |-> rounds[i].subKey],
                                         1, Len(rounds))]
        fromParityDropped(parityDropped) ==
            info(parityDropped,
                 scheduleRounds(slice(parityDropped, 0, 28),
                                slice(parityDropped, 28, Len(parityDropped)),
                                SHIFT_SCHEDULE, 1))
    IN  fromParityDropped(
            permute(hexToBits(slice(padEnd(keyHex, 16), 0, 16), 64), PC1_TABLE))

(***************************************************************************)
(* Single-block cipher (des.ts 289-336).                                   *)
(***************************************************************************)
\* The forEach over the subkey sequence (des.ts 298-315): left and right
\* are carried from one iteration to the next, and one RoundInfo is pushed
\* per subkey.  The value is << roundData, left, right >> after the last
\* iteration.
RECURSIVE coreRounds(_, _, _, _, _)
coreRounds(left, right, sequence, index, roundData) ==
    IF index > Len(sequence) THEN << roundData, left, right >>
    ELSE LET iteration(subKeyHex, r) ==
                 coreRounds(r.left, r.right, sequence, index + 1,
                     Append(roundData,
                            [round       |-> index,
                             left        |-> bitsToHex(left),
                             right       |-> bitsToHex(right),
                             subKey      |-> subKeyHex,
                             expanded    |-> bitsToHex(r.expanded),
                             xorWithKey  |-> bitsToHex(r.xorResult),
                             sBoxOutput  |-> bitsToHex(r.sBoxResult),
                             pBoxOutput  |-> bitsToHex(r.pBoxResult),
                             roundOutput |-> bitsToHex(r.left \o r.right)]))
         IN  iteration(sequence[index],
                       feistel_round(left, right, hexToBits(sequence[index], 48)))

\* des.ts 295: the subkey sequence applied, forward for encrypt and
\* reversed for decrypt.
\* Variant of subkeySequence that never reverses the subkeys.
subkeySequenceForward(subKeys, mode) == subKeys

\* Variant of subkeySequence that reverses the subkeys in both modes.
subkeySequenceReversed(subKeys, mode) == reverse(subKeys)

subkeySequence(subKeys, mode) ==
    IF mode = "encrypt" THEN subKeys ELSE reverse(subKeys)

\* id is the value nanoid() returns in this call.  The hex strings of the
\* model are lowercase, so inputHex.toLowerCase() is inputHex.
runCore(inputHex, keyHex, mode, id) ==
    LET withFp(ip, ks, sequence, rounds, fp) ==
            [id          |-> id,
             mode        |-> mode,
             inputHex    |-> inputHex,
             outputHex   |-> bitsToHex(fp),
             ipOutput    |-> bitsToHex(ip),
             fpOutput    |-> bitsToHex(fp),
             rounds      |-> rounds,
             subKeys     |-> sequence,
             keySchedule |-> [parityDroppedKey |-> ks.parityDroppedKey,
                              rounds           |-> ks.rounds]]
        withRounds(ip, ks, sequence, run) ==
            withFp(ip, ks, sequence, run[1],
                   final_permutation(run[3] \o run[2]))
        withSequence(ip, ks, sequence) ==
            withRounds(ip, ks, sequence,
                       coreRounds(slice(ip, 0, 32), slice(ip, 32, Len(ip)),
                                  sequence, 1, << >>))
        withSchedule(ip, ks) ==
            withSequence(ip, ks, subkeySequence(ks.subKeys, mode))
    IN  withSchedule(initial_permutation(hexToBits(inputHex, 64)),
                     generate_subkeys(keyHex))

\* Variant of des_encrypt whose output depends on the id drawn as well.
des_encryptIdDependent(plaintextHex, keyHex, id) ==
    runCore(IF id = "V1StGXR8" THEN plaintextHex ELSE reverse(plaintextHex),
            keyHex, "encrypt", id)

des_encrypt(plaintextHex, keyHex, id) == runCore(plaintextHex, keyHex, "encrypt", id)

des_decrypt(ciphertextHex, keyHex, id) == runCore(ciphertextHex, keyHex, "decrypt", id)

(***************************************************************************)
(* Avalanche comparison (des.ts 364-386).  A percentage is kept in         *)
(* hundredths: Number(((diff / 64) * 100).toFixed(2)) is diff * 25 / 16    *)
(* rounded to two decimals, halves upwards.                                *)
(***************************************************************************)
\* baseBits.forEach((bit, idx) => { if (bit !== mutatedBits[idx]) diff += 1 })
differingBits(baseBits, mutatedBits) ==
    Cardinality({ idx \in 1..Len(baseBits) :
                    idx > Len(mutatedBits) \/ baseBits[idx] # mutatedBits[idx] })

roundDiff(i, diff) ==
    [round |-> i + 1, differingBits |-> diff,
     percentage |-> (diff * 625 + 2) \div 4]

RECURSIVE compareRoundsFrom(_, _, _, _)
compareRoundsFrom(base, mutated, i, diffs) ==
    IF i >= 16 THEN diffs
    ELSE IF i + 1 > Len(base) \/ i + 1 > Len(mutated)
         THEN compareRoundsFrom(base, mutated, i + 1, diffs)
         ELSE compareRoundsFrom(base, mutated, i + 1,
                  Append(diffs,
                         roundDiff(i, differingBits(
                                          hexToBits(base[i + 1].roundOutput, 64),
                                          hexToBits(mutated[i + 1].roundOutput, 64)))))

\* Variant of compareRoundsForAvalanche that starts at the second round.
compareRoundsForAvalancheFromSecond(base, mutated) ==
    compareRoundsFrom(base, mutated, 1, << >>)

compareRoundsForAvalanche(base, mutated) ==
    compareRoundsFrom(base, mutated, 0, << >>)

(***************************************************************************)
(* Diagnostic variant engine (services/diagnostics 84-270).                *)
(***************************************************************************)
\* The value undefined, which is no array of the program.
undefined == << -1 >>

\* hex.replace(/[^0-9a-f]/gi, '').padEnd(16, '0').slice(0, 16).toLowerCase():
\* a hex string of the model holds hex digits only, in lowercase.
normalizeBlockHex(hex) == slice(padEnd(hex, 16), 0, 16)

permuteBits(bits, table) ==
    SubSeq([i \in 1..Len(table) |-> bits[table[i]]], 1, Len(table))

\* The forEach of generateSubkeysWithSchedule (106-112), which rotates with
\* its own copy of leftShift (93-96, the same text as des.ts 160-163).
\* Variant of variantSubkeys that takes each subkey before rotating.
RECURSIVE variantSubkeysShiftLate(_, _, _, _)
variantSubkeysShiftLate(c, d, schedule, index) ==
    IF index > Len(schedule) THEN << >>
    ELSE << bitsToHex(permuteBits(c \o d, PC2_TABLE)) >>
         \o variantSubkeysShiftLate(leftShift(c, schedule[index]),
                                    leftShift(d, schedule[index]),
                                    schedule, index + 1)

RECURSIVE variantSubkeys(_, _, _, _)
variantSubkeys(c, d, schedule, index) ==
    IF index > Len(schedule) THEN << >>
    ELSE LET iteration(c2, d2) ==
                 << bitsToHex(permuteBits(c2 \o d2, PC2_TABLE)) >>
                 \o variantSubkeys(c2, d2, schedule, index + 1)
         IN  iteration(leftShift(c, schedule[index]),
                       leftShift(d, schedule[index]))

\* An optional field of VariantOptions that is not given is an absent field
\* of the record; reading it gives default.
orDefault(record, field, default) ==
    IF field \in DOMAIN record THEN record[field] ELSE default

generateSubkeysWithSchedule(keyHex, shiftSchedule) ==
    LET fromParityDropped(parityDropped) ==
            variantSubkeys(slice(parityDropped, 0, 28),
                           slice(parityDropped, 28, Len(parityDropped)),
                           IF shiftSchedule = undefined
                           THEN SHIFT_SCHEDULE ELSE shiftSchedule, 1)
    IN  fromParityDropped(
            permuteBits(hexToBits(normalizeBlockHex(keyHex), 64), PC1_TABLE))

includes(array, value) == \E i \in 1..Len(array) : array[i] = value

\* The for loop of runVariant (138-145); i counts the rounds already run.
RECURSIVE variantRounds(_, _, _, _, _, _)
variantRounds(left, right, sequence, options, i, roundsToRun) ==
    IF i >= roundsToRun THEN << left, right >>
    ELSE LET iteration(next, swapHere) ==
                 variantRounds(IF swapHere THEN next.right ELSE next.left,
                               IF swapHere THEN next.left ELSE next.right,
                               sequence, options, i + 1, roundsToRun)
         IN  iteration(feistel_round(left, right, hexToBits(sequence[i + 1], 48)),
                       includes(orDefault(options, "swapAfterRound", << >>), i + 1))

runVariant(inputHex, keyHex, options) ==
    LET output(preOutput) ==
            bitsToHex(IF orDefault(options, "skipFP", FALSE)
                      THEN preOutput ELSE final_permutation(preOutput))
        withHalves(halves) ==
            output(IF orDefault(options, "skipFinalSwap", FALSE)
                   THEN halves[1] \o halves[2] ELSE halves[2] \o halves[1])
        withSequence(ip, sequence) ==
            withHalves(variantRounds(slice(ip, 0, 32), slice(ip, 32, Len(ip)),
                                     sequence, options, 0,
                                     Min(Len(sequence),
                                         orDefault(options, "roundLimit", 16))))
        withSubkeys(ip, subKeys) ==
            withSequence(ip, IF "keyOrder" \in DOMAIN options /\ options.keyOrder = "reversed"
                             THEN reverse(subKeys) ELSE subKeys)
        withBlock(block) ==
            withSubkeys(IF orDefault(options, "skipIP", FALSE)
                        THEN block ELSE initial_permutation(block),
                        generateSubkeysWithSchedule(
                            keyHex, orDefault(options, "shiftSchedule", undefined)))
    IN  withBlock(hexToBits(normalizeBlockHex(inputHex), 64))

\* The catalog (168-225).  credit and score are in tenths: 6 is 0.6 and 10
\* is 1.
patterns ==
    << [code |-> "skip-ip-fp", label |-> "Skipped IP/FP",
        options |-> [skipIP |-> TRUE, skipFP |-> TRUE],
        description |-> "Student output matches a run with no initial/final permutation.",
        credit |-> 6],
       [code |-> "skip-ip", label |-> "Skipped IP",
        options |-> [skipIP |-> TRUE],
        description |-> "Initial Permutation (IP) was skipped but FP was still applied.",
        credit |-> 5],
       [code |-> "no-final-swap", label |-> "Forgot final swap",
        options |-> [skipFinalSwap |-> TRUE],
        description |-> "Halves were not swapped before the final permutation.",
        credit |-> 6],
       [code |-> "swap-after-round-1", label |-> "Swapped halves after R1",
        options |-> [swapAfterRound |-> << 1 >>],
        description |-> "Left/right halves inverted after round 1.",
        credit |-> 5],
       [code |-> "reversed-subkeys", label |-> "K16->K1 order",
        options |-> [keyOrder |-> "reversed"],
        description |-> "Round keys applied in reverse order.",
        credit |-> 4],
       [code |-> "two-rounds-only", label |-> "Stopped after 2 rounds",
        options |-> [roundLimit |-> 2],
        description |-> "Execution ended after round 2.",
        credit |-> 2],
       [code |-> "four-rounds-only", label |-> "Stopped after 4 rounds",
        options |-> [roundLimit |-> 4],
        description |-> "Execution ended after round 4.",
        credit |-> 3],
       [code |-> "all-one-bit-shifts", label |-> "Wrong shift schedule",
        options |-> [shiftSchedule |-> [i \in 1..16 |-> 1]],
        description |-> "Used 1-bit shifts for all key-schedule rounds.",
        credit |-> 3] >>

null == "null"

\* 236-243
correctResult(expectedOutput, studentOutput) ==
    [matchedPattern |-> "correct",
     message        |-> "Answer matches expected ciphertext.",
     expectedOutput |-> expectedOutput,
     studentOutput  |-> studentOutput,
     score          |-> 10,
     tags           |-> << "correct" >>]

\* Variant of patternResult that gives no partial credit.
patternResultNoCredit(pattern, expectedOutput, studentOutput) ==
    [matchedPattern |-> pattern.code,
     variantMatched |-> pattern.label,
     message        |-> pattern.description,
     expectedOutput |-> expectedOutput,
     studentOutput  |-> studentOutput,
     score          |-> 0,
     tags           |-> << "incorrect", pattern.code >>]

\* Variant of patternResult that gives full credit.
patternResultFullCredit(pattern, expectedOutput, studentOutput) ==
    [matchedPattern |-> pattern.code,
     variantMatched |-> pattern.label,
     message        |-> pattern.description,
     expectedOutput |-> expectedOutput,
     studentOutput  |-> studentOutput,
     score          |-> 10,
     tags           |-> << "incorrect", pattern.code >>]

\* 249-258: credit = Math.min(1, Math.max(0, pattern.credit))
patternResult(pattern, expectedOutput, studentOutput) ==
    [matchedPattern |-> pattern.code,
     variantMatched |-> pattern.label,
     message        |-> pattern.description,
     expectedOutput |-> expectedOutput,
     studentOutput  |-> studentOutput,
     score          |-> Min(10, Max(0, pattern.credit)),
     tags           |-> << "incorrect", pattern.code >>]

\* Variant of unclassifiedResult that reports the last catalog entry.
unclassifiedResultLastEntry(expectedOutput, studentOutput) ==
    [matchedPattern |-> patterns[Len(patterns)].code,
     message        |-> "No known mistake pattern matched. Likely multiple or different errors.",
     expectedOutput |-> expectedOutput,
     studentOutput  |-> studentOutput,
     score          |-> 0,
     tags           |-> << "incorrect", "unclassified" >>]

\* 262-269
unclassifiedResult(expectedOutput, studentOutput) ==
    [matchedPattern |-> null,
     message        |-> "No known mistake pattern matched. Likely multiple or different errors.",
     expectedOutput |-> expectedOutput,
     studentOutput  |-> studentOutput,
     score          |-> 0,
     tags           |-> << "incorrect", "unclassified" >>]

\* Variant of matchPatterns whose loop stops one entry early.
RECURSIVE matchPatternsStopEarly(_, _, _, _, _)
matchPatternsStopEarly(plaintextHex, keyHex, studentOutput, expectedOutput, index) ==
    IF index >= Len(patterns)
    THEN unclassifiedResult(expectedOutput, studentOutput)
    ELSE IF runVariant(plaintextHex, keyHex, patterns[index].options) = studentOutput
         THEN patternResult(patterns[index], expectedOutput, studentOutput)
         ELSE matchPatternsStopEarly(plaintextHex, keyHex, studentOutput,
                                     expectedOutput, index + 1)

\* The for loop over the catalog (246-260) from entry index on, and the
\* fall-through return (262-269).
RECURSIVE matchPatterns(_, _, _, _, _)
matchPatterns(plaintextHex, keyHex, studentOutput, expectedOutput, index) ==
    IF index > Len(patterns)
    THEN unclassifiedResult(expectedOutput, studentOutput)
    ELSE IF runVariant(plaintextHex, keyHex, patterns[index].options) = studentOutput
         THEN patternResult(patterns[index], expectedOutput, studentOutput)
         ELSE matchPatterns(plaintextHex, keyHex, studentOutput,
                            expectedOutput, index + 1)

\* Variant of diagnoseDESSubmission without the comparison with the
\* expected output.
diagnoseWithoutExpectedCheck(input, id) ==
    LET normalized(plaintextHex, keyHex, studentOutput) ==
            matchPatterns(plaintextHex, keyHex, studentOutput,
                          des_encrypt(plaintextHex, keyHex, id).outputHex, 1)
    IN  normalized(normalizeBlockHex(input.plaintextHex),
                   normalizeBlockHex(input.keyHex),
                   normalizeBlockHex(input.studentOutputHex))

\* id is the value nanoid() returns inside des_encrypt.
diagnoseDESSubmission(input, id) ==
    LET decide(plaintextHex, keyHex, studentOutput, expectedOutput) ==
            IF studentOutput = expectedOutput
            THEN correctResult(expectedOutput, studentOutput)
            ELSE matchPatterns(plaintextHex, keyHex, studentOutput,
                               expectedOutput, 1)
        normalized(plaintextHex, keyHex, studentOutput) ==
            decide(plaintextHex, keyHex, studentOutput,
                   des_encrypt(plaintextHex, keyHex, id).outputHex)
    IN  normalized(normalizeBlockHex(input.plaintextHex),
                   normalizeBlockHex(input.keyHex),
                   normalizeBlockHex(input.studentOutputHex))

(***************************************************************************)
(* Byte helpers and modes of operation of the application                  *)
(* (src/unnamed/part_002).  A Uint8Array is a sequence over 0..255.        *)
(***************************************************************************)
\* byte.toString(16).padStart(2, '0'), joined
RECURSIVE bytesToHex(_)
bytesToHex(bytes) ==
    IF Len(bytes) = 0 THEN << >>
    ELSE << Head(bytes) \div 16, Head(bytes) % 16 >> \o bytesToHex(Tail(bytes))

HexLengthError == [error |-> "Hex input must have an even length."]

\* parseInt(sanitized.slice(i, i + 2), 16) of two hex digits is never NaN.
hexToBytes(hex) ==
    IF Len(hex) % 2 # 0 THEN HexLengthError
    ELSE SubSeq([k \in 1..(Len(hex) \div 2) |-> 16 * hex[2 * k - 1] + hex[2 * k]],
                1, Len(hex) \div 2)

\* Variant of padTo8Bytes that pads up to the next multiple of 8 only.
padTo8BytesUpToMultiple(bytes) ==
    LET filled(padValue) == bytes \o SubSeq([i \in 1..padValue |-> padValue], 1, padValue)
    IN  filled((8 - (Len(bytes) % 8)) % 8)

padTo8Bytes(bytes) ==
    LET filled(padValue) == bytes \o SubSeq([i \in 1..padValue |-> padValue], 1, padValue)
        withPad(pad) == filled(IF pad = 0 THEN 8 ELSE pad)
    IN  withPad(8 - (Len(bytes) % 8))

\* Variant of unpadPkcs that trusts the last byte without comparing the
\* trailing bytes with it.
unpadPkcsTrustLastByte(bytes) ==
    IF Len(bytes) = 0 THEN bytes
    ELSE LET strip(pad) ==
                 IF pad < 1 \/ pad > 8 \/ pad > Len(bytes) THEN bytes
                 ELSE slice(bytes, 0, Len(bytes) - pad)
         IN  strip(bytes[Len(bytes)])

unpadPkcs(bytes) ==
    IF Len(bytes) = 0 THEN bytes
    ELSE LET strip(pad) ==
                 IF pad < 1 \/ pad > 8 \/ pad > Len(bytes) THEN bytes
                 ELSE IF \E i \in 0..(pad - 1) : bytes[Len(bytes) - i] # pad
                      THEN bytes
                      ELSE slice(bytes, 0, Len(bytes) - pad)
         IN  strip(bytes[Len(bytes)])

RECURSIVE concatByteChunks(_)
concatByteChunks(chunks) ==
    IF Len(chunks) = 0 THEN << >>
    ELSE Head(chunks) \o concatByteChunks(Tail(chunks))

\* a ^ b on bytes
RECURSIVE xorByte(_, _)
xorByte(a, b) ==
    IF a = 0 THEN b
    ELSE IF b = 0 THEN a
         ELSE 2 * xorByte(a \div 2, b \div 2) + ((a + b) % 2)

\* a[i]: reading a typed array past its end gives undefined, and
\* undefined ^ x is x.
byteAt(bytes, i) == IF i < Len(bytes) THEN bytes[i + 1] ELSE 0

xorBlocks(a, b) ==
    SubSeq([k \in 1..8 |-> xorByte(byteAt(a, k - 1), byteAt(b, k - 1))], 1, 8)

\* The for loop of incrementCounter (419-422) from index i downwards.
RECURSIVE incrementFrom(_, _)
incrementFrom(out, i) ==
    IF i < 0 THEN out
    ELSE LET stepped(next) ==
                 IF next[i + 1] # 0 THEN next ELSE incrementFrom(next, i - 1)
         IN  stepped([out EXCEPT ![i + 1] = (out[i + 1] + 1) % 256])

\* Variant of incrementCounter that increments the last byte without
\* carrying into the bytes before it.
incrementCounterNoCarry(counter) ==
    [counter EXCEPT ![8] = (counter[8] + 1) % 256]

incrementCounter(counter) == incrementFrom(counter, 7)

\* What the caller's array holds after incrementCounter(counter): out is a
\* copy (new Uint8Array(counter), 418) and the loop writes to out only.
counterAfterIncrement(counter) == counter

encryptBlock(block, keyHex, id) ==
    LET fromResult(res) == [bytes |-> hexToBytes(res.outputHex), result |-> res]
    IN  fromResult(des_encrypt(bytesToHex(block), keyHex, id))

decryptBlock(block, keyHex, id) ==
    LET fromResult(res) == [bytes |-> hexToBytes(res.outputHex), result |-> res]
    IN  fromResult(des_decrypt(bytesToHex(block), keyHex, id))

\* Variant of nextEncryptChain whose CFB feedback is the keystream block.
nextEncryptChainCfbKeystream(mode, chain, bytes, cipherBlock) ==
    IF mode = "CBC" THEN bytes
    ELSE IF mode = "CFB" THEN bytes
    ELSE IF mode = "OFB" THEN bytes
    ELSE IF mode = "CTR" THEN incrementCounter(chain)
    ELSE chain

\* Variant of nextEncryptChain whose OFB state is the ciphertext block.
nextEncryptChainOfbCipher(mode, chain, bytes, cipherBlock) ==
    IF mode = "CBC" THEN bytes
    ELSE IF mode = "CFB" THEN cipherBlock
    ELSE IF mode = "OFB" THEN cipherBlock
    ELSE IF mode = "CTR" THEN incrementCounter(chain)
    ELSE chain

\* The value the encryption loops carry to the next block: prev (252),
\* feedback (261), ofb (270), counter (279).
nextEncryptChain(mode, chain, bytes, cipherBlock) ==
    IF mode = "CBC" THEN bytes
    ELSE IF mode = "CFB" THEN cipherBlock
    ELSE IF mode = "OFB" THEN bytes
    ELSE IF mode = "CTR" THEN incrementCounter(chain)
    ELSE chain

\* The loops of encryptBytesWithMode (230-235, 246-253, 256-262, 265-271,
\* 274-280) from offset i on; each entry is the block pushed and the
\* DESResult of the block cipher call that produced it.  id is the value of
\* nanoid() in the first call; the ids of later calls are dropped with their
\* results.
RECURSIVE encryptLoop(_, _, _, _, _, _)
encryptLoop(plaintext, keyHex, mode, chain, i, id) ==
    IF i >= Len(plaintext) THEN << >>
    ELSE LET emit(e, cipherBlock) ==
                 << [bytes |-> cipherBlock, result |-> e.result] >>
                 \o encryptLoop(plaintext, keyHex, mode,
                                nextEncryptChain(mode, chain, e.bytes, cipherBlock),
                                i + 8, id)
             direct(e) == emit(e, e.bytes)
             stream(block, e) == emit(e, xorBlocks(block, e.bytes))
             step(block) ==
                 IF mode = "ECB" THEN direct(encryptBlock(block, keyHex, id))
                 ELSE IF mode = "CBC"
                      THEN direct(encryptBlock(xorBlocks(block, chain), keyHex, id))
                      ELSE stream(block, encryptBlock(chain, keyHex, id))
         IN  step(slice(plaintext, i, i + 8))

blockBytes(steps) == SubSeq([k \in 1..Len(steps) |-> steps[k].bytes], 1, Len(steps))

NoBlocksError == [error |-> "No blocks were encrypted"]

\* Variant of encryptBytesWithMode that puts an IV in front of the output in
\* every mode.
encryptBytesWithModeAlwaysIv(plaintext, keyHex, mode, customIv, randomBlock, id) ==
    LET finish(iv, steps) ==
            IF Len(steps) = 0 THEN NoBlocksError
            ELSE [output |-> concatByteChunks(
                                 << iv, concatByteChunks(blockBytes(steps)) >>),
                  firstBlockResult |-> steps[1].result]
        withIv(iv) == finish(iv, encryptLoop(plaintext, keyHex, mode, iv, 0, id))
    IN  withIv(IF customIv = undefined THEN randomBlock ELSE customIv)

\* mode is one of the five values of DesMode.  customIv is undefined when
\* the caller passes none; randomBlock is what generateRandomBlock() would
\* return.
encryptBytesWithMode(plaintext, keyHex, mode, customIv, randomBlock, id) ==
    LET finish(iv, steps) ==
            IF Len(steps) = 0 THEN NoBlocksError
            ELSE [output |->
                      IF mode = "ECB" THEN concatByteChunks(blockBytes(steps))
                      ELSE concatByteChunks(
                               << iv, concatByteChunks(blockBytes(steps)) >>),
                  firstBlockResult |-> steps[1].result]
        withIv(iv) == finish(iv, encryptLoop(plaintext, keyHex, mode, iv, 0, id))
    IN  withIv(IF mode = "ECB" THEN null
               ELSE IF customIv = undefined THEN randomBlock ELSE customIv)

\* Variant of nextDecryptChain whose CFB feedback is the recovered
\* plaintext block.
nextDecryptChainPlainFeedback(mode, chain, block, bytes, plainBlock) ==
    IF mode = "CBC" THEN block
    ELSE IF mode = "CFB" THEN plainBlock
    ELSE IF mode = "OFB" THEN bytes
    ELSE IF mode = "CTR" THEN incrementCounter(chain)
    ELSE chain

\* Variant of nextDecryptChain whose CBC previous block is the recovered
\* plaintext block.
nextDecryptChainCbcPlain(mode, chain, block, bytes, plainBlock) ==
    IF mode = "CBC" THEN plainBlock
    ELSE IF mode = "CFB" THEN block
    ELSE IF mode = "OFB" THEN bytes
    ELSE IF mode = "CTR" THEN incrementCounter(chain)
    ELSE chain

\* The value the decryption loops carry to the next block: prev (330),
\* feedback (339), ofb (348), counter (357).
nextDecryptChain(mode, chain, block, bytes, plainBlock) ==
    IF mode = "CBC" THEN block
    ELSE IF mode = "CFB" THEN block
    ELSE IF mode = "OFB" THEN bytes
    ELSE IF mode = "CTR" THEN incrementCounter(chain)
    ELSE chain

\* The loops of decryptBytesWithMode (306-311, 324-331, 334-340, 343-349,
\* 352-358) from offset i of body on.
RECURSIVE decryptLoop(_, _, _, _, _, _)
decryptLoop(body, keyHex, mode, chain, i, id) ==
    IF i >= Len(body) THEN << >>
    ELSE LET emit(block, e, plainBlock) ==
                 << [bytes |-> plainBlock, result |-> e.result] >>
                 \o decryptLoop(body, keyHex, mode,
                                nextDecryptChain(mode, chain, block, e.bytes, plainBlock),
                                i + 8, id)
             direct(block, e) == emit(block, e, e.bytes)
             chained(block, e) == emit(block, e, xorBlocks(e.bytes, chain))
             stream(block, e) == emit(block, e, xorBlocks(block, e.bytes))
             step(block) ==
                 IF mode = "ECB" THEN direct(block, decryptBlock(block, keyHex, id))
                 ELSE IF mode = "CBC"
                      THEN chained(block, decryptBlock(block, keyHex, id))
                      ELSE stream(block, encryptBlock(chain, keyHex, id))
         IN  step(slice(body, i, i + 8))

MissingIvError == [error |-> "Ciphertext must include an 8-byte IV/nonce."]

\* Variant of decryptBytesWithMode that asks for the 8 bytes of the IV only.
decryptBytesWithModeIvOnly(ciphertext, keyHex, mode, id) ==
    LET finish(steps) ==
            [output |-> concatByteChunks(blockBytes(steps)),
             firstBlockResult |->
                 IF Len(steps) = 0 THEN undefined ELSE steps[1].result]
    IN  IF mode = "ECB"
        THEN finish(decryptLoop(ciphertext, keyHex, mode, null, 0, id))
        ELSE IF Len(ciphertext) < 8 THEN MissingIvError
             ELSE finish(decryptLoop(slice(ciphertext, 8, Len(ciphertext)),
                                     keyHex, mode, slice(ciphertext, 0, 8), 0, id))

\* firstBlockResult! is undefined when no block was processed.
decryptBytesWithMode(ciphertext, keyHex, mode, id) ==
    LET finish(steps) ==
            [output |-> concatByteChunks(blockBytes(steps)),
             firstBlockResult |->
                 IF Len(steps) = 0 THEN undefined ELSE steps[1].result]
    IN  IF mode = "ECB"
        THEN finish(decryptLoop(ciphertext, keyHex, mode, null, 0, id))
        ELSE IF Len(ciphertext) < 16 THEN MissingIvError
             ELSE finish(decryptLoop(slice(ciphertext, 8, Len(ciphertext)),
                                     keyHex, mode, slice(ciphertext, 0, 8), 0, id))

(***************************************************************************)
(* The decrypt branches of the application's request handlers              *)
(* (part_002 882-1080).  A request is the state the handler reads; the     *)
(* value of a handler is the state it sets.  A thrown Error is a record    *)
(* with the field error, which the handler's catch turns into setError.    *)
(***************************************************************************)
\* Whether a call of decryptBytesWithMode inside a try block threw.
threw(value) == "error" \in DOMAIN value

KeyError == [error |-> "Key must be 64 bits (16 hex chars or 64 binary digits)."]

NoCiphertextError == [error |-> "Paste ciphertext in hex or Base64 to decrypt."]

CiphertextLengthError == [error |-> "Ciphertext length must be a multiple of 8 bytes."]

NoFileError == [error |-> "Select a file first."]

FileLengthError == [error |-> "Encrypted file length must be a multiple of 8 bytes."]

PlainLengthError ==
    [error |-> "Provide data in multiples of 64 bits (16 hex chars) for this mode."]

\* 'decrypted.bin' in UTF-8; a file name is kept as its UTF-8 bytes.
DefaultFileName == << 100, 101, 99, 114, 121, 112, 116, 101, 100, 46, 98, 105, 110 >>

unwrapFileEnvelope(bytes) ==
    IF Len(bytes) < 2 THEN [name |-> DefaultFileName, data |-> bytes]
    ELSE LET split(nameEnd) ==
                 [name |-> IF nameEnd = 2 THEN DefaultFileName
                           ELSE slice(bytes, 2, nameEnd),
                  data |-> slice(bytes, nameEnd, Len(bytes))]
         IN  split(Min(Len(bytes), 2 + (bytes[1] * 256 + bytes[2])))

\* runTextProcess('decrypt') with keyFormat 'hex'.  A Base64 input is given
\* by the bytes atob makes of it; textPlainBytes are the bytes whose text
\* the handler shows.  hexToBytes throws on an odd number of digits, and
\* the catch makes its Error the handler's.
runTextProcessDecrypt(request, keyHex, desMode, id) ==
    LET decrypted(sourceBytes, res) ==
            IF threw(res) THEN res
            ELSE [error |-> null,
                  textCipherHex  |-> bytesToHex(sourceBytes),
                  textPlainBytes |-> unpadPkcs(res.output),
                  currentResult  |-> res.firstBlockResult]
        decoded(sourceBytes) ==
            IF Len(sourceBytes) % 8 # 0 THEN CiphertextLengthError
            ELSE decrypted(sourceBytes,
                           decryptBytesWithMode(sourceBytes, keyHex, desMode, id))
    IN  IF ~request.keyValid THEN KeyError
        ELSE IF request.textCipherEncoding = "hex"
             THEN (IF Len(request.digits) = 0 THEN NoCiphertextError
                   ELSE IF Len(request.digits) % 2 # 0
                        THEN hexToBytes(request.digits)
                        ELSE decoded(hexToBytes(request.digits)))
             ELSE (IF Len(request.bytes) = 0 THEN NoCiphertextError
                   ELSE decoded(request.bytes))

\* runFileProcess('decrypt').
runFileProcessDecrypt(request, keyHex, desMode, id) ==
    LET unwrapped(res, file) ==
            [error |-> null,
             filePlainBytes |-> file.data,
             fileOutputName |-> file.name,
             currentResult  |-> res.firstBlockResult]
        decrypted(res) ==
            IF threw(res) THEN res
            ELSE unwrapped(res, unwrapFileEnvelope(unpadPkcs(res.output)))
    IN  IF ~request.keyValid THEN KeyError
        ELSE IF ~request.fileSelected THEN NoFileError
        ELSE IF Len(request.bytes) % 8 # 0 THEN FileLengthError
        ELSE decrypted(decryptBytesWithMode(request.bytes, keyHex, desMode, id))

\* Variant of plainValid that accepts any input that is not empty.
plainValidNotEmpty(digits) == Len(digits) > 0

\* plainValidation.valid for plaintextFormat 'hex' (759-760); the digits are
\* the sanitized input.
plainValid(digits) == Len(digits) > 0 /\ Len(digits) % 16 = 0

\* runProcess('decrypt') for inputKind 'hex' or 'binary', called without
\* overrides (2324).
runProcessDecrypt(request, keyHex, desMode, id) ==
    LET decrypted(inputBytes, res) ==
            IF threw(res) THEN res
            ELSE [error |-> null,
                  currentResult |-> res.firstBlockResult,
                  lastCipherHex |-> bytesToHex(inputBytes),
                  lastIvHex     |-> IF desMode = "ECB" THEN null
                                    ELSE slice(bytesToHex(inputBytes), 0, 16),
                  plaintext     |-> bytesToHex(unpadPkcs(res.output))]
        decoded(inputBytes) ==
            decrypted(inputBytes,
                      decryptBytesWithMode(padTo8Bytes(inputBytes),
                                           keyHex, desMode, id))
    IN  IF ~request.keyValid THEN KeyError
        ELSE IF ~plainValid(request.digits) THEN PlainLengthError
        ELSE IF Len(request.digits) % 2 # 0 THEN hexToBytes(request.digits)
        ELSE decoded(hexToBytes(request.digits))

\* runProcess('encrypt') for inputKind 'hex' or 'binary', called without
\* overrides (2324); customIv is hexToBytes(ivInput) when ivInput holds 16
\* hex digits, else undefined.
runProcessEncrypt(request, keyHex, desMode, customIv, randomBlock, id) ==
    LET encrypted(res) ==
            IF threw(res) THEN res
            ELSE [error |-> null,
                  currentResult |-> res.firstBlockResult,
                  lastCipherHex |-> bytesToHex(res.output),
                  lastIvHex     |-> IF desMode = "ECB" THEN null
                                    ELSE slice(bytesToHex(res.output), 0, 16)]
        decoded(inputBytes) ==
            encrypted(encryptBytesWithMode(padTo8Bytes(inputBytes), keyHex,
                                           desMode, customIv, randomBlock, id))
    IN  IF ~request.keyValid THEN KeyError
        ELSE IF ~plainValid(request.digits) THEN PlainLengthError
        ELSE IF Len(request.digits) % 2 # 0 THEN hexToBytes(request.digits)
        ELSE decoded(hexToBytes(request.digits))

(***************************************************************************)
(* Inputs.  Hex strings are lowercase and 16 digits long, as the callers   *)
(* sanitise them (App 759, 798).  The named vectors are those of           *)
(* des.test.ts and DES_PRESETS; GenHex adds further arbitrary values.      *)
(***************************************************************************)
NumGenBlocks == 2

NumGenKeys == 2

GenHex(seed) == [j \in 1..16 |-> (seed * seed * 7 + seed * (2 * j + 1) * 5 + j * j * 3) % 16]

NistPlain  == << 0, 1, 2, 3, 4, 5, 6, 7, 8, 9, 10, 11, 12, 13, 14, 15 >>

NistKey    == << 1, 3, 3, 4, 5, 7, 7, 9, 9, 11, 11, 12, 13, 15, 15, 1 >>

NistCipher == << 8, 5, 14, 8, 1, 3, 5, 4, 0, 15, 0, 10, 11, 4, 0, 5 >>

BasicPlain  == << 0, 2, 4, 6, 8, 10, 12, 14, 14, 12, 10, 8, 6, 4, 2, 0 >>

BasicKey    == << 0, 15, 1, 5, 7, 1, 12, 9, 4, 7, 13, 9, 14, 8, 5, 9 >>

BasicCipher == << 13, 10, 0, 2, 12, 14, 3, 10, 8, 9, 14, 12, 10, 12, 3, 11 >>

WeakPlain == << 15, 15, 15, 15, 15, 15, 15, 15, 15, 15, 15, 15, 15, 15, 15, 15 >>

WeakKey   == << 0, 1, 0, 1, 0, 1, 0, 1, 0, 1, 0, 1, 0, 1, 0, 1 >>

Blocks ==
    { NistPlain, BasicPlain, BasicCipher, WeakPlain }
        \cup { GenHex(i) : i \in 1..NumGenBlocks }

Keys ==
    { NistKey, BasicKey, WeakKey }
        \cup { GenHex(100 + i) : i \in 1..NumGenKeys }

NumGenDiagBlocks == 1

DiagBlocks == { NistPlain, WeakPlain } \cup { GenHex(i) : i \in 1..NumGenDiagBlocks }

DiagKeys == { NistKey, WeakKey }

\* Submissions that are the output of no variant.
OtherOutputs == { NistCipher, BasicCipher }

MaxPadLen == 17

NumPadSeeds == 2

\* A payload of n bytes.
Payload(n, seed) == SubSeq([i \in 1..n |-> (seed * 97 + i * (2 * seed + 9) * 13) % 256], 1, n)

\* A payload of n bytes that reads as PKCS padding: n bytes of value n.
PadLike(n) == SubSeq([i \in 1..n |-> n], 1, n)

PadPayloads ==
    { Payload(n, seed) : n \in 0..MaxPadLen, seed \in 1..NumPadSeeds }
    \cup { PadLike(n) : n \in 1..8 }

MaxRawLen == 8

\* len bytes of value value: a well-formed padding when 1 <= value <= 8 and
\* value <= len, and otherwise a last byte that is out of range or larger
\* than the length.
Filled(len, value) == SubSeq([i \in 1..len |-> value], 1, len)

\* Filled(len, value) with the byte k places before the last one changed.
Broken(len, value, k) == [Filled(len, value) EXCEPT ![len - k] = 200]

\* Byte arrays handed to unpadPkcs that padTo8Bytes did not produce.
RawPayloads ==
    { Filled(len, value) : len \in 1..MaxRawLen, value \in 0..9 }
    \cup UNION { { Broken(len, value, k) : value \in 2..8, k \in 1..(len - 1) } :
                   len \in 2..MaxRawLen }

MaxModeBlocks == 1

ModePayloads ==
    { Payload(8 * b, 1) : b \in 0..MaxModeBlocks }
    \cup { Payload(5, 2), PadLike(3), PadLike(8) }

ModeKeys == { BasicKey, WeakKey }

DesModes == { "ECB", "CBC", "CFB", "OFB", "CTR" }

CustomIv == << 18, 52, 86, 120, 154, 188, 222, 240 >>

\* Blocks generateRandomBlock() may return; the second one makes the CTR
\* counter carry through all eight bytes.
RandomBlocks == { << 0, 17, 34, 51, 68, 85, 102, 119 >>,
                  << 255, 255, 255, 255, 255, 255, 255, 255 >> }

\* The values nanoid() may return; two are enough to tell calls apart.
NanoIds == { "V1StGXR8", "IRFaVaY2" }

MaxHexLen == 18

\* Hex strings of every length from 0 to MaxHexLen digits, as a caller that
\* does not sanitise its input may pass them.
RawHex(n) == [j \in 1..n |-> (5 * j + 3) % 16]

MaxRequestLen == 17

\* Ciphertexts of every length from 0 to MaxRequestLen bytes.
RequestBytes == { Payload(n, 3) : n \in 0..MaxRequestLen }

\* The same as hex digits, and two inputs with an odd number of digits.
RequestDigits ==
    { bytesToHex(bytes) : bytes \in RequestBytes }
    \cup { Tail(bytesToHex(Payload(n, 3))) : n \in { 1, 8 } }

\* inputKind 'call' stands for a caller of decryptBytesWithMode itself.
Requests ==
    { [inputKind |-> kind, textCipherEncoding |-> "base64", digits |-> << >>,
       bytes |-> bytes, keyValid |-> keyValid, fileSelected |-> TRUE] :
        kind \in { "text", "file" }, bytes \in RequestBytes, keyValid \in BOOLEAN }
    \cup
    { [inputKind |-> kind, textCipherEncoding |-> "hex", digits |-> digits,
       bytes |-> << >>, keyValid |-> keyValid, fileSelected |-> TRUE] :
        kind \in { "text", "hex" }, digits \in RequestDigits, keyValid \in BOOLEAN }
    \cup
    { [inputKind |-> "call", textCipherEncoding |-> "hex", digits |-> << >>,
       bytes |-> bytes, keyValid |-> TRUE, fileSelected |-> TRUE] :
        bytes \in RequestBytes }
    \cup
    { [inputKind |-> "file", textCipherEncoding |-> "hex", digits |-> << >>,
       bytes |-> << >>, keyValid |-> TRUE, fileSelected |-> FALSE] }

\* The widths of the bit sequences the cipher converts: block, parity
\* dropped key, subkey and half block.
Widths == { 64, 56, 48, 32 }

NumConvSeeds == 6

ConvHex(size, seed) ==
    [j \in 1..(size \div 4) |->
        (seed * (j * j + 3 * j + seed) + (j * seed) \div 3) % 16]

ConvBits(size, seed) ==
    [i \in 1..size |-> ((i * i * (seed + 1) + i * seed) \div (seed + 2)) % 2]

\* The 64 blocks with a single 1 bit.
OneHots == { [i \in 1..64 |-> IF i = k THEN 1 ELSE 0] : k \in 1..64 }

NumRequests == 3

NumFlipBits == 4

\* Values of Math.floor(Math.random() * 64), the last bit among them.
FlipBits == { (63 + 43 * k) % 64 : k \in 0..(NumFlipBits - 1) }

NumCounterSeeds == 4

\* A counter block whose last k bytes are 255 and whose other bytes are not.
Counter(seed, k) ==
    SubSeq([i \in 1..8 |-> IF i > 8 - k THEN 255 ELSE (seed * 53 + i * 29) % 255],
           1, 8)

Counters == { Counter(seed, k) : seed \in 1..NumCounterSeeds, k \in 0..8 }

\* The value nanoid() returns in the block cipher calls of the modes, where
\* only the first call's DESResult is kept.
ModeIds == { "V1StGXR8" }

(***************************************************************************)
(* State.                                                                  *)
(***************************************************************************)
VARIABLES
    pc,          \* position of the calling program
    inputHex,    \* the block handed to the cipher
    keyHex,      \* the key
    result,      \* the DESResult of the last des_encrypt / des_decrypt
    prior,       \* the DESResult whose outputHex was fed to the last call
    schedule,    \* the value of generate_subkeys(keyHex)
    studentOutputHex,  \* the output a student submits for (inputHex, keyHex)
    submitted,   \* how the student computed it
    diagnosis,   \* the DiagnosisResult for the submission
    payload,     \* the bytes to protect
    desMode,     \* the DesMode selected
    customIv,    \* the IV the caller passes, or undefined
    padded,      \* the value of padTo8Bytes(payload)
    cipher,      \* what encryptBytesWithMode returned
    plain,       \* what decryptBytesWithMode returned
    unpadded,    \* the value of unpadPkcs
    counter,     \* the array handed to incrementCounter
    incremented, \* the array incrementCounter returned
    request,     \* what a decrypt request handler reads
    response,    \* what the handler set
    avalancheDiffs,   \* the AvalancheRoundDiff[] of the avalanche demo
    mutatedBitIndex,  \* the bit the demo flipped
    width,       \* the size handed to hexToBits
    bitBlock,        \* a bit sequence
    roundTripped, \* what converting there and back gave
    env,         \* process.env of the API server: VERCEL, seed teacher set
    dbInitialized,    \* the flag of initializeDb
    ensureTablesRuns, \* how many times ensureTables has been called
    callPc       \* where each call of initializeDb stands

cipherVars == << result, prior, schedule >>

diagVars == << studentOutputHex, submitted, diagnosis >>

modeVars == << payload, desMode, customIv, padded, cipher, plain, unpadded >>

counterVars == << counter, incremented >>

requestVars == << request, response >>

avalancheVars == << avalancheDiffs, mutatedBitIndex >>

\* The variables of the tools around the cipher.
conversionVars == << width, bitBlock, roundTripped >>

serverVars == << env, dbInitialized, ensureTablesRuns, callPc >>

restVars == << avalancheVars, conversionVars, serverVars >>

vars == << pc, inputHex, keyHex, result, prior, schedule,
           studentOutputHex, submitted, diagnosis,
           payload, desMode, customIv, padded, cipher, plain, unpadded,
           counter, incremented, request, response,
           avalancheDiffs, mutatedBitIndex, width, bitBlock, roundTripped,
           env, dbInitialized, ensureTablesRuns, callPc >>

None == << >>

\* No tool around the cipher has run.
ConversionIdle == width = None /\ bitBlock = None /\ roundTripped = None

ServerIdle ==
    /\ env = None /\ dbInitialized = None
    /\ ensureTablesRuns = None /\ callPc = None

RestIdle ==
    /\ avalancheDiffs = None /\ mutatedBitIndex = None
    /\ ConversionIdle
    /\ ServerIdle

Init ==
    /\ pc = "ready"
    /\ inputHex \in Blocks
    /\ keyHex \in Keys
    /\ result = None
    /\ prior = None
    /\ schedule = None
    /\ studentOutputHex = None /\ submitted = None /\ diagnosis = None
    /\ payload = None /\ desMode = None /\ customIv = None /\ padded = None
    /\ cipher = None /\ plain = None /\ unpadded = None
    /\ counter = None /\ incremented = None
    /\ request = None /\ response = None
    /\ RestIdle

Encrypt ==
    /\ pc = "ready"
    /\ \E id \in NanoIds : result' = des_encrypt(inputHex, keyHex, id)
    /\ pc' = "encrypted"
    /\ UNCHANGED << inputHex, keyHex, prior, schedule, diagVars, modeVars, counterVars, requestVars, restVars >>

Decrypt ==
    /\ pc = "ready"
    /\ \E id \in NanoIds : result' = des_decrypt(inputHex, keyHex, id)
    /\ pc' = "decrypted"
    /\ UNCHANGED << inputHex, keyHex, prior, schedule, diagVars, modeVars, counterVars, requestVars, restVars >>

DecryptOutput ==
    /\ pc = "encrypted"
    /\ \E id \in NanoIds : result' = des_decrypt(result.outputHex, keyHex, id)
    /\ prior' = result
    /\ pc' = "roundtrip"
    /\ UNCHANGED << inputHex, keyHex, schedule, diagVars, modeVars, counterVars, requestVars, restVars >>

GenerateSubkeys ==
    /\ pc = "ready"
    /\ schedule' = generate_subkeys(keyHex)
    /\ pc' = "scheduled"
    /\ UNCHANGED << inputHex, keyHex, result, prior, diagVars, modeVars, counterVars, requestVars, restVars >>

\* A second call of des_encrypt with the same block and key.
EncryptAgain ==
    /\ pc = "encrypted"
    /\ \E id \in NanoIds : result' = des_encrypt(inputHex, keyHex, id)
    /\ prior' = result
    /\ pc' = "encryptedAgain"
    /\ UNCHANGED << inputHex, keyHex, schedule, diagVars, modeVars, counterVars, requestVars, restVars >>

\* A second call of des_decrypt with the same block and key.
DecryptAgain ==
    /\ pc = "decrypted"
    /\ \E id \in NanoIds : result' = des_decrypt(inputHex, keyHex, id)
    /\ prior' = result
    /\ pc' = "decryptedAgain"
    /\ UNCHANGED << inputHex, keyHex, schedule, diagVars, modeVars, counterVars, requestVars, restVars >>

\* mutatedBits[bitIndex] = mutatedBits[bitIndex] === 0 ? 1 : 0
flipBit(bitSeq, bitIndex) ==
    [bitSeq EXCEPT ![bitIndex + 1] = IF bitSeq[bitIndex + 1] = 0 THEN 1 ELSE 0]

\* handleAvalancheTest with a valid key and block: prior is avalancheBase,
\* result is mutatedResult.
AvalancheTest ==
    /\ pc = "ready"
    /\ \E bitIndex \in FlipBits, id \in ModeIds :
          LET compared(baseResult, mutated) ==
                  /\ avalancheDiffs' =
                         compareRoundsForAvalanche(baseResult.rounds, mutated.rounds)
                  /\ result' = mutated
                  /\ prior' = baseResult
                  /\ mutatedBitIndex' = bitIndex
          IN  compared(des_encrypt(inputHex, keyHex, id),
                       des_encrypt(bitsToHex(flipBit(hexToBits(inputHex, 64), bitIndex)),
                                   keyHex, id))
    /\ pc' = "avalanche"
    /\ UNCHANGED << inputHex, keyHex, schedule, diagVars, modeVars, counterVars,
                    requestVars, conversionVars, serverVars >>

Next ==
    \/ Encrypt \/ Decrypt \/ DecryptOutput \/ GenerateSubkeys
    \/ EncryptAgain \/ DecryptAgain \/ AvalancheTest

Spec == Init /\ [][Next]_vars

(***************************************************************************)
(* Properties of the single-block cipher and the key schedule.             *)
(***************************************************************************)
\* C1: decrypting the output of des_encrypt(block, key) under the same key
\* gives back the block, for every block and key, the weak key included.
RoundTrip ==
    pc = "roundtrip" =>
        /\ prior.mode = "encrypt" /\ prior.inputHex = inputHex
        /\ result.mode = "decrypt" /\ result.inputHex = prior.outputHex
        /\ result.outputHex = inputHex

RoundTripWeakKeyReached ==
    /\ pc = "roundtrip"
    /\ keyHex = WeakKey
    /\ inputHex = WeakPlain
    /\ prior.outputHex # inputHex
    /\ result.outputHex = inputHex

\* C2: des_encrypt('0123456789abcdef', '133457799bbcdff1') gives
\* '85e813540f0ab405'.
NistVector ==
    (pc = "encrypted" /\ inputHex = NistPlain /\ keyHex = NistKey)
        => result.outputHex = NistCipher

NistVectorReached ==
    pc = "encrypted" /\ inputHex = NistPlain /\ keyHex = NistKey

\* C3: des_encrypt('02468aceeca86420', '0f1571c947d9e859') gives
\* 'da02ce3a89ecac3b', and des_decrypt of that under the same key gives
\* '02468aceeca86420' back.
ClassroomVector ==
    /\ (pc = "encrypted" /\ inputHex = BasicPlain /\ keyHex = BasicKey)
           => result.outputHex = BasicCipher
    /\ (pc = "decrypted" /\ inputHex = BasicCipher /\ keyHex = BasicKey)
           => result.outputHex = BasicPlain
    /\ (pc = "roundtrip" /\ inputHex = BasicPlain /\ keyHex = BasicKey)
           => (prior.outputHex = BasicCipher /\ result.outputHex = BasicPlain)

ClassroomVectorReached ==
    /\ pc = "decrypted" /\ inputHex = BasicCipher /\ keyHex = BasicKey
    /\ result.outputHex = BasicPlain

IsHex(h, digits) == Len(h) = digits /\ \A i \in 1..digits : h[i] \in 0..15

\* C5: generate_subkeys returns 16 round records numbered 1..16 in order,
\* each subkey 12 hex digits (48 bits), each shift 1 or 2 as the fixed
\* schedule says, and a parity-dropped key of 14 hex digits (56 bits).
ScheduleShape ==
    pc = "scheduled" =>
        /\ Len(schedule.rounds) = 16
        /\ Len(schedule.subKeys) = 16
        /\ \A i \in 1..16 :
              /\ schedule.rounds[i].round = i
              /\ schedule.rounds[i].shifts \in {1, 2}
              /\ schedule.rounds[i].shifts = SHIFT_SCHEDULE[i]
              /\ IsHex(schedule.rounds[i].subKey, 12)
              /\ schedule.subKeys[i] = schedule.rounds[i].subKey
        /\ IsHex(schedule.parityDroppedKey, 14)

ScheduleShapeReached ==
    /\ pc = "scheduled"
    /\ keyHex = BasicKey
    /\ Len(schedule.rounds) = 16

\* The fields of a DESResult (des.ts 33-43).
DESResultFields ==
    { "id", "mode", "inputHex", "outputHex", "ipOutput", "fpOutput",
      "rounds", "subKeys", "keySchedule" }

AvalancheDiffs ==
    pc = "avalanche" =>
        /\ Cardinality({ i \in 1..64 :
               hexToBits(result.inputHex, 64)[i] # hexToBits(prior.inputHex, 64)[i] }) = 1
        /\ Len(avalancheDiffs) > 0
        /\ Len(avalancheDiffs) = 16
        /\ \A i \in 1..16 : avalancheDiffs[i].round = i
        /\ avalancheDiffs[16].differingBits > 0

AvalancheDiffsReached ==
    /\ pc = "avalanche"
    /\ inputHex = NistPlain
    /\ keyHex = NistKey
    /\ mutatedBitIndex = 63
    /\ Len(avalancheDiffs) = 16
    /\ avalancheDiffs[16].differingBits > 0

\* C24: the key schedule inside a Cipher Result is in encryption order,
\* round 1 to round 16, in both modes (a decryption carries the same
\* schedule as the encryption before it), while result.subKeys is the
\* sequence applied: the schedule's subkeys for encrypt, their exact
\* reverse for decrypt; round record i carries the i-th applied subkey.
AppliedSubkeys ==
    result # None =>
        /\ Len(result.keySchedule.rounds) = 16
        /\ Len(result.subKeys) = 16
        /\ Len(result.rounds) = 16
        /\ \A i \in 1..16 :
              /\ result.keySchedule.rounds[i].round = i
              /\ result.keySchedule.rounds[i].shifts = SHIFT_SCHEDULE[i]
              /\ result.subKeys[i] =
                     IF result.mode = "encrypt"
                     THEN result.keySchedule.rounds[i].subKey
                     ELSE result.keySchedule.rounds[17 - i].subKey
              /\ result.rounds[i].subKey = result.subKeys[i]
        /\ pc = "roundtrip" =>
              /\ result.mode = "decrypt" /\ prior.mode = "encrypt"
              /\ result.keySchedule = prior.keySchedule
              /\ \A i \in 1..16 : result.subKeys[i] = prior.subKeys[17 - i]

AppliedSubkeysReached ==
    /\ pc = "roundtrip"
    /\ keyHex = BasicKey
    /\ result.mode = "decrypt"
    /\ result.subKeys # prior.subKeys
    /\ result.subKeys[1] = result.keySchedule.rounds[16].subKey
    /\ result.keySchedule.rounds[1].round = 1

\* C25: a Cipher Result has exactly 16 round records numbered 1..16 that
\* form a chain: record 1 starts from ipOutput, record i+1 starts from
\* record i's roundOutput, each record's new left is its old right and its
\* new right is its old left XOR pBoxOutput, and outputHex = fpOutput is
\* the final permutation of record 16's roundOutput with its halves
\* swapped.
RoundChain ==
    result # None =>
        /\ Len(result.rounds) = 16
        /\ \A i \in 1..16 :
              /\ result.rounds[i].round = i
              /\ result.rounds[i].left \o result.rounds[i].right =
                     IF i = 1 THEN result.ipOutput
                     ELSE result.rounds[i - 1].roundOutput
              /\ slice(result.rounds[i].roundOutput, 0, 8) = result.rounds[i].right
              /\ hexToBits(slice(result.rounds[i].roundOutput, 8, 16), 32) =
                     xorBits(hexToBits(result.rounds[i].left, 32),
                             hexToBits(result.rounds[i].pBoxOutput, 32))
        /\ result.outputHex = result.fpOutput
        /\ result.fpOutput =
               bitsToHex(final_permutation(
                   hexToBits(slice(result.rounds[16].roundOutput, 8, 16)
                             \o slice(result.rounds[16].roundOutput, 0, 8), 64)))

RoundChainReached ==
    /\ pc = "encrypted"
    /\ inputHex = NistPlain
    /\ keyHex = NistKey
    /\ Len(result.rounds) = 16
    /\ result.rounds[16].roundOutput # result.outputHex
    /\ result.rounds[2].left = result.rounds[1].right

(***************************************************************************)
(* Grading: a student submits an output for (inputHex, keyHex), computed   *)
(* correctly, or with one of the catalog's mistakes, or otherwise, and the *)
(* submission is diagnosed.                                                *)
(***************************************************************************)
InitDiag ==
    /\ pc = "ready"
    /\ inputHex \in DiagBlocks
    /\ keyHex \in DiagKeys
    /\ result = None /\ prior = None /\ schedule = None
    /\ studentOutputHex = None /\ submitted = None /\ diagnosis = None
    /\ payload = None /\ desMode = None /\ customIv = None /\ padded = None
    /\ cipher = None /\ plain = None /\ unpadded = None
    /\ counter = None /\ incremented = None
    /\ request = None /\ response = None
    /\ RestIdle

SubmitCorrect ==
    /\ pc = "ready"
    /\ \E id \in NanoIds :
          studentOutputHex' = des_encrypt(inputHex, keyHex, id).outputHex
    /\ submitted' = "correct"
    /\ pc' = "submitted"
    /\ UNCHANGED << inputHex, keyHex, cipherVars, diagnosis, modeVars, counterVars, requestVars, restVars >>

SubmitVariant ==
    /\ pc = "ready"
    /\ \E i \in 1..Len(patterns) :
          /\ studentOutputHex' = runVariant(inputHex, keyHex, patterns[i].options)
          /\ submitted' = patterns[i].code
    /\ pc' = "submitted"
    /\ UNCHANGED << inputHex, keyHex, cipherVars, diagnosis, modeVars, counterVars, requestVars, restVars >>

SubmitOther ==
    /\ pc = "ready"
    /\ studentOutputHex' \in OtherOutputs
    /\ submitted' = "other"
    /\ pc' = "submitted"
    /\ UNCHANGED << inputHex, keyHex, cipherVars, diagnosis, modeVars, counterVars, requestVars, restVars >>

Diagnose ==
    /\ pc = "submitted"
    /\ \E id \in NanoIds :
          diagnosis' = diagnoseDESSubmission(
                           [plaintextHex     |-> inputHex,
                            keyHex           |-> keyHex,
                            studentOutputHex |-> studentOutputHex], id)
    /\ pc' = "diagnosed"
    /\ UNCHANGED << inputHex, keyHex, cipherVars, studentOutputHex, submitted, modeVars, counterVars, requestVars, restVars >>

\* runVariant with no mutation option, beside des_encrypt.
RunVariantPlain ==
    /\ pc = "ready"
    /\ \E id \in ModeIds : result' = des_encrypt(inputHex, keyHex, id)
    /\ studentOutputHex' = runVariant(inputHex, keyHex, << >>)
    /\ pc' = "plainVariant"
    /\ UNCHANGED << inputHex, keyHex, prior, schedule, submitted, diagnosis,
                    modeVars, counterVars, requestVars, restVars >>

\* runVariant with keyOrder 'reversed' alone, beside des_decrypt.
RunVariantReversed ==
    /\ pc = "ready"
    /\ \E id \in ModeIds : result' = des_decrypt(inputHex, keyHex, id)
    /\ studentOutputHex' = runVariant(inputHex, keyHex, [keyOrder |-> "reversed"])
    /\ pc' = "reversedVariant"
    /\ UNCHANGED << inputHex, keyHex, prior, schedule, submitted, diagnosis,
                    modeVars, counterVars, requestVars, restVars >>

NextDiag ==
    \/ SubmitCorrect \/ SubmitVariant \/ SubmitOther \/ Diagnose
    \/ RunVariantPlain \/ RunVariantReversed

SpecDiag == InitDiag /\ [][NextDiag]_vars

(***************************************************************************)
(* Properties of the diagnosis.                                            *)
(***************************************************************************)
\* The correct ciphertext for the graded (plaintext, key).
CorrectOutput == des_encrypt(inputHex, keyHex, "any").outputHex

\* The catalog entries whose variant output equals the submission.
Matching ==
    { i \in 1..Len(patterns) :
        runVariant(inputHex, keyHex, patterns[i].options) = studentOutputHex }

FirstOf(S) == CHOOSE i \in S : \A j \in S : i <= j

\* C6: a submission equal to the correct ciphertext is diagnosed as
\* 'correct' with score 1 and tags ['correct'], and no variant is named.
CorrectIsCorrect ==
    (pc = "diagnosed" /\ studentOutputHex = CorrectOutput) =>
        /\ diagnosis.matchedPattern = "correct"
        /\ diagnosis.score = 10
        /\ diagnosis.tags = << "correct" >>
        /\ "variantMatched" \notin DOMAIN diagnosis

CorrectIsCorrectReached ==
    /\ pc = "diagnosed"
    /\ submitted = "correct"
    /\ diagnosis.matchedPattern = "correct"

SkipIpFpOptions == [skipIP |-> TRUE, skipFP |-> TRUE]

\* C7: a submission equal to the output of the variant without initial and
\* final permutation is diagnosed as 'skip-ip-fp' with score 0.6.
SkipIpFpClassified ==
    (/\ pc = "diagnosed"
     /\ studentOutputHex = runVariant(inputHex, keyHex, SkipIpFpOptions)) =>
        /\ diagnosis.matchedPattern = "skip-ip-fp"
        /\ diagnosis.score = 6

SkipIpFpClassifiedReached ==
    /\ pc = "diagnosed"
    /\ submitted = "skip-ip-fp"
    /\ keyHex = WeakKey
    /\ diagnosis.matchedPattern = "skip-ip-fp"

CatalogOrder ==
    << "skip-ip-fp", "skip-ip", "no-final-swap", "swap-after-round-1",
       "reversed-subkeys", "two-rounds-only", "four-rounds-only",
       "all-one-bit-shifts" >>

CatalogCredit == << 6, 5, 6, 5, 4, 2, 3, 3 >>

NoMatchUnclassified ==
    (pc = "diagnosed" /\ studentOutputHex # CorrectOutput /\ Matching = {}) =>
        /\ diagnosis.matchedPattern = null
        /\ diagnosis.score = 0
        /\ diagnosis.tags = << "incorrect", "unclassified" >>

NoMatchUnclassifiedReached ==
    /\ pc = "diagnosed"
    /\ submitted = "other"
    /\ diagnosis.matchedPattern = null

(***************************************************************************)
(* Padding: a payload is padded and the padding is removed again.          *)
(***************************************************************************)
InitPad ==
    /\ pc = "ready"
    /\ payload \in PadPayloads \cup RawPayloads
    /\ inputHex = None /\ keyHex = None
    /\ result = None /\ prior = None /\ schedule = None
    /\ studentOutputHex = None /\ submitted = None /\ diagnosis = None
    /\ desMode = None /\ customIv = None /\ padded = None
    /\ cipher = None /\ plain = None /\ unpadded = None
    /\ counter = None /\ incremented = None
    /\ request = None /\ response = None
    /\ RestIdle

PadBytes ==
    /\ pc = "ready"
    /\ padded' = padTo8Bytes(payload)
    /\ pc' = "padded"
    /\ UNCHANGED << inputHex, keyHex, cipherVars, diagVars, counterVars, requestVars, restVars,
                    payload, desMode, customIv, cipher, plain, unpadded >>

UnpadBytes ==
    /\ pc = "padded"
    /\ unpadded' = unpadPkcs(padded)
    /\ pc' = "unpadded"
    /\ UNCHANGED << inputHex, keyHex, cipherVars, diagVars, counterVars, requestVars, restVars,
                    payload, desMode, customIv, padded, cipher, plain >>

\* unpadPkcs on bytes that were not padded by padTo8Bytes (the output of a
\* decryption, part_002 923, 980, 1073).
UnpadPayload ==
    /\ pc = "ready"
    /\ unpadded' = unpadPkcs(payload)
    /\ pc' = "stripped"
    /\ UNCHANGED << inputHex, keyHex, cipherVars, diagVars, counterVars, requestVars, restVars,
                    payload, desMode, customIv, padded, cipher, plain >>

NextPad == PadBytes \/ UnpadBytes \/ UnpadPayload

SpecPad == InitPad /\ [][NextPad]_vars

(***************************************************************************)
(* Modes of operation: the padded payload is encrypted under desMode, the  *)
(* output is decrypted under the same key and mode, and the padding is     *)
(* removed.                                                                *)
(***************************************************************************)
InitModes ==
    /\ pc = "ready"
    /\ payload \in ModePayloads
    /\ keyHex \in ModeKeys
    /\ desMode \in DesModes
    /\ customIv \in { CustomIv, undefined }
    /\ inputHex = None
    /\ result = None /\ prior = None /\ schedule = None
    /\ studentOutputHex = None /\ submitted = None /\ diagnosis = None
    /\ padded = None /\ cipher = None /\ plain = None /\ unpadded = None
    /\ counter = None /\ incremented = None
    /\ request = None /\ response = None
    /\ RestIdle

EncryptBytes ==
    /\ pc = "padded"
    /\ \E randomBlock \in RandomBlocks, id \in ModeIds :
          cipher' = encryptBytesWithMode(padded, keyHex, desMode, customIv,
                                         randomBlock, id)
    /\ pc' = "encryptedBytes"
    /\ UNCHANGED << inputHex, keyHex, cipherVars, diagVars, counterVars, requestVars, restVars,
                    payload, desMode, customIv, padded, plain, unpadded >>

DecryptBytes ==
    /\ pc = "encryptedBytes"
    /\ "output" \in DOMAIN cipher
    /\ \E id \in ModeIds :
          plain' = decryptBytesWithMode(cipher.output, keyHex, desMode, id)
    /\ pc' = "decryptedBytes"
    /\ UNCHANGED << inputHex, keyHex, cipherVars, diagVars, counterVars, requestVars, restVars,
                    payload, desMode, customIv, padded, cipher, unpadded >>

UnpadOutput ==
    /\ pc = "decryptedBytes"
    /\ "output" \in DOMAIN plain
    /\ unpadded' = unpadPkcs(plain.output)
    /\ pc' = "restored"
    /\ UNCHANGED << inputHex, keyHex, cipherVars, diagVars, counterVars, requestVars, restVars,
                    payload, desMode, customIv, padded, cipher, plain >>

NextModes == PadBytes \/ EncryptBytes \/ DecryptBytes \/ UnpadOutput

SpecModes == InitModes /\ [][NextModes]_vars

(***************************************************************************)
(* Properties of padding and of the modes.                                 *)
(***************************************************************************)
\* C4: in each of the modes ECB, CBC, CFB, OFB and CTR, padding a payload,
\* encrypting it, decrypting the output under the same key and mode and
\* removing the padding gives back the payload.
ModeRoundTrip ==
    /\ pc \in { "encryptedBytes", "decryptedBytes", "restored" } =>
          "output" \in DOMAIN cipher
    /\ pc \in { "decryptedBytes", "restored" } =>
          ("output" \in DOMAIN plain /\ plain.output = padded)
    /\ pc = "restored" => unpadded = payload

ModeRoundTripReached ==
    /\ pc = "restored"
    /\ desMode = "CTR"
    /\ customIv = undefined
    /\ Len(payload) = 8
    /\ slice(cipher.output, 8, Len(cipher.output)) # padded
    /\ unpadded = payload

PadAmount == 8 - (Len(payload) % 8)

\* C10: padTo8Bytes appends p = 8 - (len mod 8) bytes of value p, with
\* 1 <= p <= 8; the result is longer than the input and its length is a
\* multiple of 8; an input whose length is a multiple of 8 gains 8 bytes of
\* value 8.
PadShape ==
    pc = "padded" =>
        /\ PadAmount \in 1..8
        /\ Len(padded) = Len(payload) + PadAmount
        /\ SubSeq(padded, 1, Len(payload)) = payload
        /\ \A i \in (Len(payload) + 1)..Len(padded) : padded[i] = PadAmount
        /\ Len(padded) % 8 = 0
        /\ Len(padded) > Len(payload)
        /\ Len(payload) % 8 = 0 =>
              /\ Len(padded) = Len(payload) + 8
              /\ SubSeq(padded, Len(payload) + 1, Len(padded)) = PadLike(8)

PadShapeReached ==
    /\ pc = "padded"
    /\ Len(payload) = 16
    /\ Len(padded) = 24
    /\ padded[24] = 8

\* What removing a PKCS padding of bytes has to give: without the last N
\* bytes when the last byte N is in 1..8, is at most the length and all of
\* the last N bytes are N, and bytes itself in every other case.
Stripped(bytes) ==
    IF /\ Len(bytes) > 0
       /\ bytes[Len(bytes)] \in 1..8
       /\ bytes[Len(bytes)] <= Len(bytes)
       /\ \A i \in (Len(bytes) - bytes[Len(bytes)] + 1)..Len(bytes) :
             bytes[i] = bytes[Len(bytes)]
    THEN SubSeq(bytes, 1, Len(bytes) - bytes[Len(bytes)])
    ELSE bytes

\* C11: unpadPkcs removes exactly N trailing bytes, N the value of the last
\* byte, only if 1 <= N <= 8 and all N trailing bytes equal N; an empty
\* input, an N out of range or larger than the input, or inconsistent
\* trailing bytes give the input back unchanged.
UnpadRule ==
    /\ pc = "stripped" => unpadded = Stripped(payload)
    /\ pc = "unpadded" => unpadded = Stripped(padded)

UnpadRuleReached ==
    /\ pc = "stripped"
    /\ Len(payload) = 4
    /\ payload[4] = 3
    /\ payload[2] = 200
    /\ unpadded = payload

(***************************************************************************)
(* The modes block by block.                                               *)
(***************************************************************************)
\* The i-th 8-byte block of bytes, i from 1.
BlockAt(bytes, i) == SubSeq(bytes, 8 * i - 7, 8 * i)

\* The block cipher on a block of 8 bytes.
E(block) == encryptBlock(block, keyHex, "any").bytes

D(block) == decryptBlock(block, keyHex, "any").bytes

\* The IV in front of the output of a non-ECB encryption, and the blocks
\* after it.
OutputIv == SubSeq(cipher.output, 1, 8)

OutputBody == SubSeq(cipher.output, 9, Len(cipher.output))

\* The IV is the caller's, or a random block when the caller gives none.
IvAsGiven ==
    /\ Len(cipher.output) = 8 + Len(padded)
    /\ OutputIv \in (IF customIv = undefined THEN RandomBlocks ELSE { customIv })

\* The block before block i of the ciphertext: the IV for the first one.
PreviousCipherBlock(i) == IF i = 1 THEN OutputIv ELSE BlockAt(OutputBody, i - 1)

\* C12: in CBC, cipher block i is E(plain_i XOR prev_{i-1}) with prev_0 the
\* IV and prev_i = cipher_i, the output is the IV followed by the cipher
\* blocks, and decryption gives D(cipher_i) XOR prev_{i-1} where the previous
\* block is the ciphertext block, not the decrypted plaintext.
CbcChain ==
    /\ (pc = "encryptedBytes" /\ desMode = "CBC") =>
          /\ IvAsGiven
          /\ \A i \in 1..(Len(padded) \div 8) :
                BlockAt(OutputBody, i)
                    = E(xorBlocks(BlockAt(padded, i), PreviousCipherBlock(i)))
    /\ (pc = "decryptedBytes" /\ desMode = "CBC") =>
          /\ Len(plain.output) = Len(OutputBody)
          /\ \A i \in 1..(Len(OutputBody) \div 8) :
                BlockAt(plain.output, i)
                    = xorBlocks(D(BlockAt(OutputBody, i)), PreviousCipherBlock(i))

CbcChainReached ==
    /\ pc = "decryptedBytes"
    /\ desMode = "CBC"
    /\ Len(padded) = 16
    /\ BlockAt(plain.output, 2) = BlockAt(padded, 2)
    /\ BlockAt(OutputBody, 1) # BlockAt(padded, 1)

\* C13: in CFB, keystream_i = E(feedback_{i-1}) with feedback_0 the IV,
\* cipher_i = plain_i XOR keystream_i, and the feedback for the next block
\* is the ciphertext block, when encrypting and when decrypting.
CfbChain ==
    /\ (pc = "encryptedBytes" /\ desMode = "CFB") =>
          /\ IvAsGiven
          /\ \A i \in 1..(Len(padded) \div 8) :
                BlockAt(OutputBody, i)
                    = xorBlocks(BlockAt(padded, i), E(PreviousCipherBlock(i)))
    /\ (pc = "decryptedBytes" /\ desMode = "CFB") =>
          /\ Len(plain.output) = Len(OutputBody)
          /\ \A i \in 1..(Len(OutputBody) \div 8) :
                BlockAt(plain.output, i)
                    = xorBlocks(BlockAt(OutputBody, i), E(PreviousCipherBlock(i)))

CfbChainReached ==
    /\ pc = "decryptedBytes"
    /\ desMode = "CFB"
    /\ Len(padded) = 16
    /\ BlockAt(OutputBody, 2) = xorBlocks(BlockAt(padded, 2), E(BlockAt(OutputBody, 1)))
    /\ BlockAt(plain.output, 2) = BlockAt(padded, 2)

\* The OFB keystream: a function of the key and the IV alone.
RECURSIVE OfbKeystream(_, _)
OfbKeystream(iv, i) == IF i = 1 THEN E(iv) ELSE E(OfbKeystream(iv, i - 1))

\* C14: in OFB, keystream_i = E(state_{i-1}) with state_0 the IV and
\* state_i = keystream_i, so the keystream depends on key and IV only, and
\* encryption and decryption XOR the same keystream.
OfbChain ==
    /\ (pc = "encryptedBytes" /\ desMode = "OFB") =>
          /\ IvAsGiven
          /\ \A i \in 1..(Len(padded) \div 8) :
                BlockAt(OutputBody, i)
                    = xorBlocks(BlockAt(padded, i), OfbKeystream(OutputIv, i))
    /\ (pc = "decryptedBytes" /\ desMode = "OFB") =>
          /\ Len(plain.output) = Len(OutputBody)
          /\ \A i \in 1..(Len(OutputBody) \div 8) :
                BlockAt(plain.output, i)
                    = xorBlocks(BlockAt(OutputBody, i), OfbKeystream(OutputIv, i))

OfbChainReached ==
    /\ pc = "decryptedBytes"
    /\ desMode = "OFB"
    /\ Len(padded) = 16
    /\ BlockAt(OutputBody, 2) = xorBlocks(BlockAt(padded, 2), E(E(OutputIv)))
    /\ BlockAt(plain.output, 2) = BlockAt(padded, 2)

\* C16: in ECB every block is encrypted by itself, whatever its position
\* and the other blocks; no IV is put in front, so the output is as long as
\* the input; equal plaintext blocks give equal ciphertext blocks.
EcbBlocks ==
    /\ (pc = "encryptedBytes" /\ desMode = "ECB") =>
          /\ Len(cipher.output) = Len(padded)
          /\ \A i \in 1..(Len(padded) \div 8) :
                BlockAt(cipher.output, i) = E(BlockAt(padded, i))
          /\ \A i, j \in 1..(Len(padded) \div 8) :
                BlockAt(padded, i) = BlockAt(padded, j) =>
                    BlockAt(cipher.output, i) = BlockAt(cipher.output, j)
    /\ (pc = "decryptedBytes" /\ desMode = "ECB") =>
          /\ Len(plain.output) = Len(cipher.output)
          /\ \A i \in 1..(Len(cipher.output) \div 8) :
                BlockAt(plain.output, i) = D(BlockAt(cipher.output, i))

EcbBlocksReached ==
    /\ pc = "encryptedBytes"
    /\ desMode = "ECB"
    /\ Len(cipher.output) = 16
    /\ BlockAt(padded, 1) = BlockAt(padded, 2)
    /\ BlockAt(cipher.output, 1) = BlockAt(cipher.output, 2)
    /\ BlockAt(cipher.output, 1) # BlockAt(padded, 1)

(***************************************************************************)
(* Counter mode: a counter block is incremented, and a padded payload of   *)
(* two blocks is encrypted in CTR mode with the counter block as IV.       *)
(***************************************************************************)
InitCounter ==
    /\ pc = "ready"
    /\ payload = Payload(8, 1)
    /\ keyHex = BasicKey
    /\ desMode = "CTR"
    /\ customIv \in Counters
    /\ counter = customIv
    /\ inputHex = None
    /\ result = None /\ prior = None /\ schedule = None
    /\ studentOutputHex = None /\ submitted = None /\ diagnosis = None
    /\ padded = None /\ cipher = None /\ plain = None /\ unpadded = None
    /\ incremented = None
    /\ request = None /\ response = None
    /\ RestIdle

IncrementCounter ==
    /\ pc = "ready"
    /\ incremented' = incrementCounter(counter)
    /\ counter' = counterAfterIncrement(counter)
    /\ pc' = "incremented"
    /\ UNCHANGED << inputHex, keyHex, cipherVars, diagVars, modeVars, requestVars, restVars >>

NextCounter == IncrementCounter \/ PadBytes \/ EncryptBytes

SpecCounter == InitCounter /\ [][NextCounter]_vars

\* The 8-byte block after block, read as a big-endian number: the last byte
\* that is not 255 goes up by one and the bytes after it become 0; a block
\* of 255s becomes a block of 0s.
Successor(block) ==
    LET below == { i \in 1..8 : block[i] # 255 }
        carryTo == CHOOSE i \in below : \A j \in below : j <= i
    IN  IF below = {} THEN Filled(8, 0)
        ELSE [i \in 1..8 |-> IF i < carryTo THEN block[i]
                             ELSE IF i = carryTo THEN block[i] + 1 ELSE 0]

RECURSIVE CounterAt(_)
CounterAt(i) == IF i = 1 THEN OutputIv ELSE Successor(CounterAt(i - 1))

\* C15: in CTR, block i is XORed with E(counter_i), counter_0 is the IV and
\* the next counter is the big-endian increment of the 8-byte counter, the
\* carry going from byte 7 towards byte 0, so that a counter of 0xff bytes
\* wraps to zeros; incrementCounter returns a new array of 8 bytes and
\* leaves its argument as it was.
CtrCounter ==
    /\ pc = "incremented" =>
          /\ Len(incremented) = 8
          /\ incremented = Successor(customIv)
          /\ customIv = Filled(8, 255) => incremented = Filled(8, 0)
          /\ counter = customIv
    /\ (pc = "encryptedBytes" /\ desMode = "CTR") =>
          /\ IvAsGiven
          /\ \A i \in 1..(Len(padded) \div 8) :
                BlockAt(OutputBody, i)
                    = xorBlocks(BlockAt(padded, i), E(CounterAt(i)))

CtrCounterReached ==
    /\ pc = "encryptedBytes"
    /\ desMode = "CTR"
    /\ customIv = Filled(8, 255)
    /\ Len(padded) = 16
    /\ BlockAt(OutputBody, 2) = xorBlocks(BlockAt(padded, 2), E(Filled(8, 0)))

(***************************************************************************)
(* Decrypt requests: a ciphertext of any length reaches                    *)
(* decryptBytesWithMode directly, or one of the request handlers.          *)
(***************************************************************************)
InitRequests ==
    /\ pc = "ready"
    /\ request \in Requests
    /\ keyHex = BasicKey
    /\ desMode \in DesModes
    /\ inputHex = None
    /\ result = None /\ prior = None /\ schedule = None
    /\ studentOutputHex = None /\ submitted = None /\ diagnosis = None
    /\ payload = None /\ customIv = None /\ padded = None
    /\ cipher = None /\ plain = None /\ unpadded = None
    /\ counter = None /\ incremented = None
    /\ response = None
    /\ RestIdle

CallDecrypt ==
    /\ pc = "ready"
    /\ request.inputKind = "call"
    /\ \E id \in ModeIds :
          plain' = decryptBytesWithMode(request.bytes, keyHex, desMode, id)
    /\ pc' = "called"
    /\ UNCHANGED << inputHex, keyHex, cipherVars, diagVars, counterVars,
                    requestVars, restVars, payload, desMode, customIv, padded, cipher,
                    unpadded >>

RunTextDecrypt ==
    /\ pc = "ready"
    /\ request.inputKind = "text"
    /\ \E id \in ModeIds :
          response' = runTextProcessDecrypt(request, keyHex, desMode, id)
    /\ pc' = "responded"
    /\ UNCHANGED << inputHex, keyHex, cipherVars, diagVars, counterVars,
                    modeVars, request, restVars >>

RunFileDecrypt ==
    /\ pc = "ready"
    /\ request.inputKind = "file"
    /\ \E id \in ModeIds :
          response' = runFileProcessDecrypt(request, keyHex, desMode, id)
    /\ pc' = "responded"
    /\ UNCHANGED << inputHex, keyHex, cipherVars, diagVars, counterVars,
                    modeVars, request, restVars >>

RunHexDecrypt ==
    /\ pc = "ready"
    /\ request.inputKind = "hex"
    /\ \E id \in ModeIds :
          response' = runProcessDecrypt(request, keyHex, desMode, id)
    /\ pc' = "responded"
    /\ UNCHANGED << inputHex, keyHex, cipherVars, diagVars, counterVars,
                    modeVars, request, restVars >>

NextRequests == CallDecrypt \/ RunTextDecrypt \/ RunFileDecrypt \/ RunHexDecrypt

SpecRequests == InitRequests /\ [][NextRequests]_vars

\* C17: decryptBytesWithMode in a mode other than ECB with fewer than 16
\* bytes fails with the missing-IV error, with no output and no block
\* processed; ECB has no such check, and 16 bytes or more pass it.
MissingIv ==
    pc = "called" =>
        IF desMode # "ECB" /\ Len(request.bytes) < 16
        THEN /\ plain = MissingIvError
             /\ DOMAIN plain = { "error" }
        ELSE /\ "output" \in DOMAIN plain
             /\ "error" \notin DOMAIN plain

MissingIvReached ==
    /\ pc = "called"
    /\ desMode = "CBC"
    /\ Len(request.bytes) = 15
    /\ plain = MissingIvError

\* The ciphertext of a request, IV included, is not a whole number of
\* 8-byte blocks (16 hex digits).
NotWholeBlocks ==
    IF request.textCipherEncoding = "hex"
    THEN Len(request.digits) % 16 # 0
    ELSE Len(request.bytes) % 8 # 0

LengthErrors ==
    [ text |-> { CiphertextLengthError, HexLengthError },
      file |-> { FileLengthError },
      hex  |-> { PlainLengthError } ]

\* C18: a decrypt request on the text, file or hex path whose ciphertext is
\* not a multiple of 8 bytes is rejected: the handler sets an error and
\* nothing else (no plaintext, no cipher result, so nothing was padded or
\* decrypted), and with a valid key that error is the path's length error.
LengthRejected ==
    (pc = "responded" /\ NotWholeBlocks) =>
        /\ DOMAIN response = { "error" }
        /\ response.error # null
        /\ request.keyValid => response \in LengthErrors[request.inputKind]

LengthRejectedReached ==
    /\ pc = "responded"
    /\ request.inputKind = "hex"
    /\ request.keyValid
    /\ Len(request.digits) = 18
    /\ desMode = "ECB"
    /\ response = PlainLengthError

(***************************************************************************)
(* The cipher boundary: des_encrypt, des_decrypt and generate_subkeys      *)
(* called with a block or a key of any length.                             *)
(***************************************************************************)
InitBoundary ==
    /\ pc = "ready"
    /\ \/ inputHex \in { RawHex(n) : n \in 0..MaxHexLen } /\ keyHex = BasicKey
       \/ inputHex = BasicPlain /\ keyHex \in { RawHex(n) : n \in 0..MaxHexLen }
    /\ result = None /\ prior = None /\ schedule = None
    /\ studentOutputHex = None /\ submitted = None /\ diagnosis = None
    /\ payload = None /\ desMode = None /\ customIv = None /\ padded = None
    /\ cipher = None /\ plain = None /\ unpadded = None
    /\ counter = None /\ incremented = None
    /\ request = None /\ response = None
    /\ RestIdle

NextBoundary == Encrypt \/ Decrypt \/ GenerateSubkeys

SpecBoundary == InitBoundary /\ [][NextBoundary]_vars

\* C19: a block or key that is not exactly 16 hex digits makes des_encrypt,
\* des_decrypt and generate_subkeys fail: no Cipher Result and no Key
\* Schedule comes of an input that had to be padded or truncated.
FailsFast ==
    /\ (pc \in { "encrypted", "decrypted" }
            /\ (Len(inputHex) # 16 \/ Len(keyHex) # 16))
           => DOMAIN result = { "error" }
    /\ (pc = "scheduled" /\ Len(keyHex) # 16)
           => DOMAIN schedule = { "error" }

(***************************************************************************)
(* Conversions and permutations as functions of their argument: a hex      *)
(* string or a bit sequence of one of the cipher's widths is converted     *)
(* there and back; a 64-bit block is permuted there and back.              *)
(***************************************************************************)
InitConvert ==
    /\ width \in Widths
    /\ \/ /\ pc = "hex"
          /\ inputHex \in { ConvHex(width, seed) : seed \in 0..NumConvSeeds }
          /\ bitBlock = None
       \/ /\ pc = "bits"
          /\ inputHex = None
          /\ bitBlock \in { ConvBits(width, seed) : seed \in 0..NumConvSeeds }
                        \cup (IF width = 64 THEN OneHots ELSE { })
    /\ roundTripped = None
    /\ keyHex = None
    /\ result = None /\ prior = None /\ schedule = None
    /\ studentOutputHex = None /\ submitted = None /\ diagnosis = None
    /\ payload = None /\ desMode = None /\ customIv = None /\ padded = None
    /\ cipher = None /\ plain = None /\ unpadded = None
    /\ counter = None /\ incremented = None
    /\ request = None /\ response = None
    /\ avalancheDiffs = None /\ mutatedBitIndex = None
    /\ ServerIdle

\* bitsToHex(hexToBits(inputHex, width))
HexThereAndBack ==
    /\ pc = "hex"
    /\ bitBlock' = hexToBits(inputHex, width)
    /\ roundTripped' = bitsToHex(hexToBits(inputHex, width))
    /\ pc' = "hexBack"
    /\ UNCHANGED << inputHex, keyHex, cipherVars, diagVars, modeVars,
                    counterVars, requestVars, avalancheVars, serverVars, width >>

\* hexToBits(bitsToHex(bitBlock), width)
BitsThereAndBack ==
    /\ pc = "bits"
    /\ inputHex' = bitsToHex(bitBlock)
    /\ roundTripped' = hexToBits(bitsToHex(bitBlock), width)
    /\ pc' = "bitsBack"
    /\ UNCHANGED << keyHex, cipherVars, diagVars, modeVars, counterVars,
                    requestVars, avalancheVars, serverVars, width, bitBlock >>

\* final_permutation(initial_permutation(bitBlock))
IpThenFp ==
    /\ pc = "bits"
    /\ width = 64
    /\ roundTripped' = final_permutation(initial_permutation(bitBlock))
    /\ pc' = "ipFp"
    /\ UNCHANGED << inputHex, keyHex, cipherVars, diagVars, modeVars,
                    counterVars, requestVars, avalancheVars, serverVars, width, bitBlock >>

\* initial_permutation(final_permutation(bitBlock))
FpThenIp ==
    /\ pc = "bits"
    /\ width = 64
    /\ roundTripped' = initial_permutation(final_permutation(bitBlock))
    /\ pc' = "fpIp"
    /\ UNCHANGED << inputHex, keyHex, cipherVars, diagVars, modeVars,
                    counterVars, requestVars, avalancheVars, serverVars, width, bitBlock >>

NextConvert == HexThereAndBack \/ BitsThereAndBack \/ IpThenFp \/ FpThenIp

SpecConvert == InitConvert /\ [][NextConvert]_vars

\* C23: for the widths 64, 56, 48 and 32, hexToBits gives width bits, four
\* per digit with the most significant first, and bitsToHex gives it back
\* the hex string of width/4 digits; bitsToHex of width bits gives width/4
\* digits and hexToBits gives back the bits.
HexBitsInverse ==
    /\ pc = "hexBack" =>
           /\ Len(inputHex) = width \div 4
           /\ Len(bitBlock) = width
           /\ \A j \in 1..Len(inputHex) :
                  inputHex[j] = 8 * bitBlock[4 * j - 3] + 4 * bitBlock[4 * j - 2]
                                + 2 * bitBlock[4 * j - 1] + bitBlock[4 * j]
           /\ roundTripped = inputHex
    /\ pc = "bitsBack" =>
           /\ Len(bitBlock) = width
           /\ Len(inputHex) = width \div 4
           /\ roundTripped = bitBlock

HexBitsInverseReached ==
    /\ pc = "hexBack"
    /\ width = 56
    /\ inputHex = ConvHex(56, 1)
    /\ bitBlock # ConvBits(56, 0)
    /\ roundTripped = inputHex

\* C29: final_permutation undoes initial_permutation and the other way
\* round, for every 64-bit block: for each of the 64 single-bit blocks (so
\* for every position) and for the other blocks; both tables hold each of
\* 1..64 once.
IpFpInverse ==
    /\ pc \in { "ipFp", "fpIp" } => roundTripped = bitBlock
    /\ pc = "ipFp" =>
           /\ Len(initial_permutation(bitBlock)) = 64
           /\ { IP_TABLE[i] : i \in 1..Len(IP_TABLE) } = 1..64
    /\ pc = "fpIp" =>
           /\ Len(final_permutation(bitBlock)) = 64
           /\ { FP_TABLE[i] : i \in 1..Len(FP_TABLE) } = 1..64

IpFpInverseReached ==
    /\ pc = "fpIp"
    /\ bitBlock \in OneHots
    /\ bitBlock[58] = 1
    /\ final_permutation(bitBlock) # bitBlock
    /\ roundTripped = bitBlock

\* C26: runVariant with no mutation option returns the outputHex of
\* des_encrypt for the same block and key, and runVariant with keyOrder
\* 'reversed' alone returns the outputHex of des_decrypt.
VariantAgreesWithCipher ==
    /\ pc = "plainVariant" =>
           /\ result.mode = "encrypt"
           /\ result.inputHex = inputHex
           /\ studentOutputHex = result.outputHex
    /\ pc = "reversedVariant" =>
           /\ result.mode = "decrypt"
           /\ result.inputHex = inputHex
           /\ studentOutputHex = result.outputHex

VariantAgreesWithCipherReached ==
    /\ pc = "reversedVariant"
    /\ inputHex = NistPlain
    /\ keyHex = NistKey
    /\ studentOutputHex = result.outputHex
    /\ studentOutputHex # NistCipher

\* C27: in every Diagnosis Result, score is 1 exactly when matchedPattern is
\* 'correct', exactly when studentOutput equals expectedOutput; a matched
\* catalog pattern has 0 < score < 1 and a studentOutput different from
\* expectedOutput, also under the weak key, where a variant's output that
\* coincides with the correct one is graded correct; score is 0 exactly
\* when matchedPattern is null.  (Scores are in tenths.)
DiagnosisConsistent ==
    pc = "diagnosed" =>
        /\ diagnosis.studentOutput = studentOutputHex
        /\ diagnosis.score = 10 <=> diagnosis.matchedPattern = "correct"
        /\ diagnosis.matchedPattern = "correct"
               <=> diagnosis.studentOutput = diagnosis.expectedOutput
        /\ diagnosis.score = 0 <=> diagnosis.matchedPattern = null
        /\ diagnosis.matchedPattern \in { patterns[i].code : i \in 1..Len(patterns) }
               => /\ 0 < diagnosis.score /\ diagnosis.score < 10
                  /\ diagnosis.studentOutput # diagnosis.expectedOutput
        /\ diagnosis.matchedPattern \in
               { "correct", null } \cup { patterns[i].code : i \in 1..Len(patterns) }

DiagnosisConsistentReached ==
    /\ pc = "diagnosed"
    /\ keyHex = WeakKey
    /\ submitted = "reversed-subkeys"
    /\ diagnosis.matchedPattern = "correct"
    /\ diagnosis.score = 10

(***************************************************************************)
(* The hex input flow of runProcess: an input is encrypted, and the        *)
(* complete output of the encryption is decrypted under the same key and   *)
(* mode.  The inputs are whole blocks, as plainValidation demands.         *)
(***************************************************************************)
InitHexFlow ==
    /\ pc = "ready"
    /\ payload \in { Payload(8, 1), Payload(16, 2), PadLike(8) }
    /\ request = [inputKind |-> "hex", textCipherEncoding |-> "hex",
                  digits |-> bytesToHex(payload), bytes |-> << >>,
                  keyValid |-> TRUE, fileSelected |-> TRUE]
    /\ keyHex \in ModeKeys
    /\ desMode \in DesModes
    /\ customIv \in { CustomIv, undefined }
    /\ inputHex = None
    /\ result = None /\ prior = None /\ schedule = None
    /\ studentOutputHex = None /\ submitted = None /\ diagnosis = None
    /\ padded = None /\ cipher = None /\ plain = None /\ unpadded = None
    /\ counter = None /\ incremented = None
    /\ response = None
    /\ RestIdle

RunHexEncrypt ==
    /\ pc = "ready"
    /\ \E randomBlock \in RandomBlocks, id \in ModeIds :
          response' = runProcessEncrypt(request, keyHex, desMode, customIv,
                                        randomBlock, id)
    /\ pc' = "hexEncrypted"
    /\ UNCHANGED << inputHex, keyHex, cipherVars, diagVars, counterVars,
                    modeVars, request, restVars >>

\* The output of the encryption is the input of the decryption; cipher
\* keeps what the encryption set.
RunHexDecryptOutput ==
    /\ pc = "hexEncrypted"
    /\ response.error = null
    /\ request' = [request EXCEPT !.digits = response.lastCipherHex]
    /\ cipher' = response
    /\ \E id \in ModeIds :
          response' = runProcessDecrypt(
                          [request EXCEPT !.digits = response.lastCipherHex],
                          keyHex, desMode, id)
    /\ pc' = "hexDecrypted"
    /\ UNCHANGED << inputHex, keyHex, cipherVars, diagVars, counterVars,
                    payload, desMode, customIv, padded, plain, unpadded,
                    restVars >>

NextHexFlow == RunHexEncrypt \/ RunHexDecryptOutput

SpecHexFlow == InitHexFlow /\ [][NextHexFlow]_vars

\* C28: in the hex flow of runProcess, decrypting the complete output of a
\* preceding encryption with the same key and mode sets the plaintext to
\* exactly the original input bytes.
HexFlowRoundTrip ==
    pc = "hexDecrypted" =>
        /\ response.error = null
        /\ response.plaintext = bytesToHex(payload)

(***************************************************************************)
(* Database initialization of the API server (server/index.js 245-287).    *)
(* Outside serverless mode start() calls initializeDb once; in serverless  *)
(* mode the middleware calls it for each request.  A call runs up to its   *)
(* first await in one step: the test of dbInitialized and the call of      *)
(* ensureTables are not interrupted, and the call then waits for           *)
(* ensureTables, and for the seeding when a seed teacher is configured.    *)
(***************************************************************************)
\* The callers of initializeDb: the requests in serverless mode, else start().
Callers == IF env.VERCEL THEN 1..NumRequests ELSE { 0 }

InitServer ==
    /\ env \in [VERCEL : BOOLEAN, seedTeacher : BOOLEAN]
    /\ dbInitialized = FALSE
    /\ ensureTablesRuns = 0
    /\ callPc = [c \in 0..NumRequests |-> "idle"]
    /\ pc = "serving"
    /\ inputHex = None /\ keyHex = None
    /\ result = None /\ prior = None /\ schedule = None
    /\ studentOutputHex = None /\ submitted = None /\ diagnosis = None
    /\ payload = None /\ desMode = None /\ customIv = None /\ padded = None
    /\ cipher = None /\ plain = None /\ unpadded = None
    /\ counter = None /\ incremented = None
    /\ request = None /\ response = None
    /\ avalancheDiffs = None /\ mutatedBitIndex = None
    /\ ConversionIdle

\* if (dbInitialized) return; ... await ensureTables()
InitializeDb ==
    \E c \in Callers :
        /\ callPc[c] = "idle"
        /\ IF dbInitialized
           THEN /\ callPc' = [callPc EXCEPT ![c] = "returned"]
                /\ UNCHANGED ensureTablesRuns
           ELSE /\ ensureTablesRuns' = ensureTablesRuns + 1
                /\ callPc' = [callPc EXCEPT ![c] = "ensureTables"]
        /\ UNCHANGED << pc, inputHex, keyHex, cipherVars, diagVars, modeVars,
                        counterVars, requestVars, avalancheVars, conversionVars,
                        env, dbInitialized >>

\* The promise a call waits for is fulfilled: after ensureTables comes the
\* seeding, if configured, and then dbInitialized = true.
AwaitResolves ==
    \E c \in Callers :
        /\ callPc[c] \in { "ensureTables", "seeding" }
        /\ IF callPc[c] = "ensureTables" /\ env.seedTeacher
           THEN /\ callPc' = [callPc EXCEPT ![c] = "seeding"]
                /\ UNCHANGED dbInitialized
           ELSE /\ dbInitialized' = TRUE
                /\ callPc' = [callPc EXCEPT ![c] = "returned"]
        /\ UNCHANGED << pc, inputHex, keyHex, cipherVars, diagVars, modeVars,
                        counterVars, requestVars, avalancheVars, conversionVars,
                        env, ensureTablesRuns >>

\* The promise is rejected: the catch logs the error and the call returns.
AwaitRejects ==
    \E c \in Callers :
        /\ callPc[c] \in { "ensureTables", "seeding" }
        /\ callPc' = [callPc EXCEPT ![c] = "returned"]
        /\ UNCHANGED << pc, inputHex, keyHex, cipherVars, diagVars, modeVars,
                        counterVars, requestVars, avalancheVars, conversionVars,
                        env, dbInitialized, ensureTablesRuns >>

NextServer == InitializeDb \/ AwaitResolves \/ AwaitRejects

SpecServer == InitServer /\ [][NextServer]_vars

\* C30: database initialization runs once: under any interleaving of
\* requests ensureTables is executed at most once per process.
InitializedOnce == ensureTablesRuns <= 1
====
